---- MODULE Spec2Model ----
(***************************************************************************)
(* Response cache (src/src/utils/cache.py) and SEC API client              *)
(* (src/src/utils/sec_client.py) of SEC-data-insights.                     *)
(*                                                                         *)
(* Strings are sequences of one-character strings, so that substring       *)
(* tests, stripping and padding are computed as Python computes them.      *)
(* Time is a discrete clock `now` read by time.time() and datetime.now();  *)
(* the clock is taken to be monotonic.  Durations (TTLs, delays) are       *)
(* scaled to a few ticks, keeping their order.                             *)
(***************************************************************************)
EXTENDS Integers, Sequences, FiniteSets, TLC

VARIABLES
  now,                \* the clock
  last_request_time,  \* SECClient.last_request_time, per client instance
  files,              \* settings.CACHE_DIR: file name -> parsed JSON content
  pc,                 \* position of the (single) thread
  attempt,            \* loop variable of _make_request
  cur,                \* the endpoint / wrapped call in progress or last finished
  ret,                \* how the last finished call ended: value or exception
  net,                \* observation of the network traffic of the call
  clr,                \* observation of the last clear_cache() call
  cik_run,            \* a run of _validate_cik on its own (SpecCik)
  disk,               \* the file system under settings.CACHE_DIR: what fails
  ana_run,            \* a call of an IndustryAnalyzer method (SpecAnalyzer)
  stmt_run,           \* a call of a statement processor (SpecStatements)
  race,               \* processes in the wrapper on one cache file (SpecRace)
  max_retries         \* SECClient.max_retries, as configured

vars == <<now, last_request_time, files, pc, attempt, cur, ret, net, clr, cik_run,
          disk, ana_run, stmt_run, race, max_retries>>

(***************************************************************************)
(* Python string methods                                                   *)
(***************************************************************************)
Digits == {"0", "1", "2", "3", "4", "5", "6", "7", "8", "9"}

DigitSeq == <<"0", "1", "2", "3", "4", "5", "6", "7", "8", "9">>

\* of the characters str.strip() removes, the space stands for all
Whitespace == {" "}

\* str.isdigit(): false on the empty string
isdigit(s) == Len(s) > 0 /\ \A i \in 1..Len(s) : s[i] \in Digits

RECURSIVE lstrip(_, _)
lstrip(s, chars) ==
  IF Len(s) > 0 /\ s[1] \in chars THEN lstrip(SubSeq(s, 2, Len(s)), chars) ELSE s

RECURSIVE rstrip(_, _)
rstrip(s, chars) ==
  IF Len(s) > 0 /\ s[Len(s)] \in chars
  THEN rstrip(SubSeq(s, 1, Len(s) - 1), chars) ELSE s

\* str.strip() with no argument
strip(s) == rstrip(lstrip(s, Whitespace), Whitespace)

\* str.zfill(width) of a string without sign
zfill(s, width) ==
  IF Len(s) >= width THEN s ELSE [i \in 1..(width - Len(s)) |-> "0"] \o s

\* Python's `sub in s` on strings
contains(s, sub) ==
  \E i \in 1..(Len(s) + 1) :
    i + Len(sub) - 1 <= Len(s) /\ SubSeq(s, i, i + Len(sub) - 1) = sub

RECURSIVE join(_, _)
join(sep, parts) ==
  IF Len(parts) = 0 THEN <<>>
  ELSE IF Len(parts) = 1 THEN parts[1]
  ELSE parts[1] \o sep \o join(sep, Tail(parts))

\* str() of an int, as an f-string formats it
RECURSIVE str_nat(_)
str_nat(n) ==
  IF n < 10 THEN <<DigitSeq[n + 1]>>
  ELSE str_nat(n \div 10) \o <<DigitSeq[(n % 10) + 1]>>

str_int(n) == IF n < 0 THEN <<"-">> \o str_nat(0 - n) ELSE str_nat(n)

(***************************************************************************)
(* SECClient._validate_cik                                                 *)
(***************************************************************************)
CIK_WIDTH == 10

\* a variant that pads whatever it is given
validate_cik_lenient(cik) ==
  [raised |-> FALSE, value |-> zfill(lstrip(strip(cik), {"0"}), CIK_WIDTH)]

validate_cik(cik) ==
  LET cik_str == lstrip(strip(cik), {"0"})
  IN  IF ~isdigit(cik_str)
      THEN [raised |-> TRUE, value |-> <<>>]
      ELSE [raised |-> FALSE, value |-> zfill(cik_str, CIK_WIDTH)]

(***************************************************************************)
(* Configuration (src/src/config/settings.py) in seconds, one tick of the   *)
(* clock being a second: the defaults of SEC_MAX_RETRIES and                *)
(* SEC_RETRY_DELAY, and a SEC_RATE_LIMIT_DELAY set in the environment.  The *)
(* TTLs of the endpoints are scaled down to a few ticks.                    *)
(***************************************************************************)
SEC_RATE_LIMIT_DELAY == 1

SEC_MAX_RETRIES == 3

SEC_RETRY_DELAY == 1

TTL_6H == 1

TTL_7D == 2

TTL_30D == 3

\* bounds of the exploration
MaxTime == 4

MaxCikLen == 11

MaxPad == 2

\* how far beyond 1..4 the quarters passed to get_frames reach
QuarterMargin == 1

\* a response arrives in the tick of its request or in the next
Latencies == {0, 1}

Clients == {1, 2}

(***************************************************************************)
(* Literals                                                                *)
(***************************************************************************)
FuncName(f) ==
  CASE f = "mock_api_call" -> <<"m", "o", "c", "k", "_", "a", "p", "i", "_", "c", "a", "l", "l">>
    [] f = "get_company_submissions" -> <<"g", "e", "t", "_", "c", "o", "m", "p", "a", "n", "y", "_", "s", "u", "b", "m", "i", "s", "s", "i", "o", "n", "s">>
    [] f = "get_company_facts" -> <<"g", "e", "t", "_", "c", "o", "m", "p", "a", "n", "y", "_", "f", "a", "c", "t", "s">>
    [] f = "get_company_concept" -> <<"g", "e", "t", "_", "c", "o", "m", "p", "a", "n", "y", "_", "c", "o", "n", "c", "e", "p", "t">>
    [] f = "get_frames" -> <<"g", "e", "t", "_", "f", "r", "a", "m", "e", "s">>

S_28917 == <<"2", "8", "9", "1", "7">>

S_0000028917 == <<"0", "0", "0", "0", "0", "2", "8", "9", "1", "7">>

S_invalid == <<"i", "n", "v", "a", "l", "i", "d">>

S_test1 == <<"t", "e", "s", "t", "1">>

S_another == <<"a", "n", "o", "t", "h", "e", "r">>

S_us_gaap == <<"u", "s", "-", "g", "a", "a", "p">>

S_Assets == <<"A", "s", "s", "e", "t", "s">>

S_Revenues == <<"R", "e", "v", "e", "n", "u", "e", "s">>

S_USD == <<"U", "S", "D">>

S_taxonomy == <<"t", "a", "x", "o", "n", "o", "m", "y">>

S_tag == <<"t", "a", "g">>

S_unit == <<"u", "n", "i", "t">>

S_year == <<"y", "e", "a", "r">>

S_quarter == <<"q", "u", "a", "r", "t", "e", "r">>

S_instantaneous == <<"i", "n", "s", "t", "a", "n", "t", "a", "n", "e", "o", "u", "s">>

\* the values a keyword argument takes: a str, an int, a bool or None
PyStr(s) == [t |-> "str", s |-> s, n |-> 0]

PyInt(n) == [t |-> "int", s |-> <<>>, n |-> n]

PyBool(b) == [t |-> "bool", s |-> <<>>, n |-> IF b THEN 1 ELSE 0]

PyNone == [t |-> "None", s |-> <<>>, n |-> 0]

\* id(self) differs between two live instances
Address(client) == IF client = 1 THEN <<"1">> ELSE <<"2">>

\* object.__repr__ of a SECClient
repr_client(client) ==
  <<"<", "s", "r", "c", ".", "u", "t", "i", "l", "s", ".", "s", "e", "c", "_", "c", "l", "i", "e", "n", "t", ".", "S", "E", "C", "C", "l", "i", "e", "n", "t", " ", "o", "b", "j", "e", "c", "t", " ", "a", "t", " ", "0", "x">> \o Address(client) \o <<">">>

\* repr of a str without quotes or escapes in it
repr_str(s) == <<"'">> \o s \o <<"'">>

\* repr of a keyword argument's value
repr_value(v) ==
  CASE v.t = "str" -> repr_str(v.s)
    [] v.t = "int" -> str_int(v.n)
    [] v.t = "bool" -> IF v.n = 1 THEN <<"T", "r", "u", "e">>
                       ELSE <<"F", "a", "l", "s", "e">>
    [] v.t = "None" -> <<"N", "o", "n", "e">>

\* bool(v) of a keyword argument's value
truth(v) ==
  CASE v.t = "str" -> Len(v.s) > 0
    [] v.t = "None" -> FALSE
    [] OTHER -> v.n # 0

(***************************************************************************)
(* cache.py: key, file name, expiry                                         *)
(***************************************************************************)
\* the positional arguments the wrapper receives: self first for a method
wrapper_args(call) ==
  (IF call.self = 0 THEN <<>> ELSE <<repr_client(call.self)>>)
    \o [i \in 1..Len(call.args) |-> repr_str(call.args[i])]

\* str(args) of a tuple
str_tuple(reprs) ==
  IF Len(reprs) = 1 THEN <<"(">> \o reprs[1] \o <<",", ")">>
  ELSE <<"(">> \o join(<<",", " ">>, reprs) \o <<")">>

\* str(kwargs) of a dict of str -> value, in call order
str_dict(kwargs) ==
  <<"{">>
    \o join(<<",", " ">>,
            [i \in 1..Len(kwargs) |->
               repr_str(kwargs[i][1]) \o <<":", " ">> \o repr_value(kwargs[i][2])])
    \o <<"}">>

\* a variant that leaves the arguments out of the key
cache_key_noargs(call) ==
  FuncName(call.func) \o <<"_">> \o str_tuple(<<>>) \o <<"_">> \o str_dict(<<>>)

\* a variant that builds the key from the normalized identifier
cache_key_normalized(call) ==
  FuncName(call.func) \o <<"_">>
    \o str_tuple((IF call.self = 0 THEN <<>> ELSE <<repr_client(call.self)>>)
                   \o [i \in 1..Len(call.args) |->
                        repr_str(IF i = 1 /\ call.self # 0
                                    /\ ~validate_cik(call.args[i]).raised
                                 THEN validate_cik(call.args[i]).value
                                 ELSE call.args[i])])
    \o <<"_">> \o str_dict(call.kwargs)

\* cache.py:47
cache_key(call) ==
  FuncName(call.func) \o <<"_">> \o str_tuple(wrapper_args(call))
    \o <<"_">> \o str_dict(call.kwargs)

\* cache.py:48-49; md5 is taken to be collision-free on the keys that occur
cache_file(key) == [md5 |-> key]

\* the functions that carry the decorator when the module is loaded;
\* the second definition of get_company_facts (sec_client.py:163) replaces
\* the decorated one (sec_client.py:142)
is_cached(f) ==
  f \in {"mock_api_call", "get_company_submissions", "get_company_concept",
         "get_frames"}

\* expires_after is None for mock_api_call (tests/test_cache.py:9)
has_ttl(f) == f \in {"get_company_submissions", "get_company_concept", "get_frames"}

expires_after(f) ==
  CASE f = "get_company_submissions" -> TTL_6H
    [] f = "get_company_concept" -> TTL_7D
    [] f = "get_frames" -> TTL_30D
    [] OTHER -> 0

\* a variant that expires an entry as soon as its age reaches the TTL
expired_early(f, t, cached_at) == has_ttl(f) /\ t - cached_at >= expires_after(f)

\* cache.py:60
expired(f, t, cached_at) == has_ttl(f) /\ t - cached_at > expires_after(f)

NoData == [src |-> <<>>, stamp |-> 0]

\* the value None as a payload: what a function returns that ends without a
\* return statement, written by json.dump as null
NoneValue == [src |-> <<"N", "o", "n", "e">>, stamp |-> 0]

NoEntry == [cached_at |-> 0, data |-> NoData, cache_key |-> <<>>]

\* the content of a file json.load or the wrapper's field accesses fail on
Corrupt == [cached_at |-> -1, data |-> NoData, cache_key |-> <<>>]

\* the cache directory without a file in it
EmptyDir == [f \in {} |-> NoEntry]

\* a variant that returns what the file holds without parsing it
lookup_unparsed(fs, call, t) ==
  LET file == cache_file(cache_key(call))
  IN  IF file \in DOMAIN fs /\ ~expired(call.func, t, fs[file].cached_at)
      THEN [hit |-> TRUE, data |-> fs[file].data]
      ELSE [hit |-> FALSE, data |-> NoData]

\* a variant that reads the entry and goes on to the wrapped function
lookup_through(fs, call, t) == [hit |-> FALSE, data |-> NoData]

\* cache.py:54-66: the cached payload, when the wrapper returns it
lookup(fs, call, t) ==
  LET file == cache_file(cache_key(call))
  IN  IF /\ file \in DOMAIN fs
         /\ fs[file] # Corrupt
         /\ ~expired(call.func, t, fs[file].cached_at)
      THEN [hit |-> TRUE, data |-> fs[file].data]
      ELSE [hit |-> FALSE, data |-> NoData]

\* a variant that keeps the cached_at of the entry it overwrites
store_stale(fs, call, t, data) ==
  LET key == cache_key(call)
      file == cache_file(key)
  IN  [f \in DOMAIN fs \cup {file} |->
         IF f = file
         THEN [cached_at |-> IF file \in DOMAIN fs THEN fs[file].cached_at ELSE t,
               data |-> data, cache_key |-> key]
         ELSE fs[f]]

\* cache.py:72-79
store(fs, call, t, data) ==
  LET key == cache_key(call)
      file == cache_file(key)
  IN  [f \in DOMAIN fs \cup {file} |->
         IF f = file THEN [cached_at |-> t, data |-> data, cache_key |-> key]
         ELSE fs[f]]

\* a variant that drops the entry of the key when the wrapped function raises
files_on_raise_purged(fs, call) ==
  [f \in DOMAIN fs \ {cache_file(cache_key(call))} |-> fs[f]]

\* cache.py:69: an exception of func leaves the wrapper there, before the
\* write; a function without the decorator has no wrapper around it
files_on_raise(fs, call) == fs

\* cache.py:72-82 under the faults of the file system: the exception of
\* open('w') or of json.dump is logged and swallowed
write_entry(fs, dk, call, t, data) ==
  LET file == cache_file(cache_key(call))
  IN  CASE dk.write = "ok" -> store(fs, call, t, data)
        [] dk.write = "open" -> fs
        [] dk.write = "dump" ->
             [f \in DOMAIN fs \cup {file} |-> IF f = file THEN Corrupt ELSE fs[f]]

\* `if pattern:` is false for None and for ""
truthy(pattern) == pattern.given /\ Len(pattern.text) > 0

\* a variant that deletes every file, whatever the pattern
clear_cache_all(fs, pattern) ==
  [files |-> EmptyDir, count |-> Cardinality(DOMAIN fs)]

\* a variant that counts only the deletions of the pattern branch
clear_cache_uncounted(fs, pattern) ==
  LET deleted == {f \in DOMAIN fs :
                    IF truthy(pattern)
                    THEN contains(fs[f].cache_key, pattern.text)
                    ELSE TRUE}
  IN  [files |-> [f \in DOMAIN fs \ deleted |-> fs[f]],
       count |-> IF truthy(pattern) THEN Cardinality(deleted) ELSE 0]

\* a variant that removes the files it cannot read
clear_cache_purging(fs, pattern) ==
  LET deleted == {f \in DOMAIN fs :
                    IF truthy(pattern)
                    THEN fs[f] = Corrupt \/ contains(fs[f].cache_key, pattern.text)
                    ELSE TRUE}
  IN  [files |-> [f \in DOMAIN fs \ deleted |-> fs[f]],
       count |-> Cardinality(deleted)]

\* cache.py:12-39; under a pattern a file json.load fails on raises inside
\* the per-file try and is passed over (cache.py:32-34)
clear_cache(fs, pattern) ==
  LET deleted == {f \in DOMAIN fs :
                    IF truthy(pattern)
                    THEN fs[f] # Corrupt /\ contains(fs[f].cache_key, pattern.text)
                    ELSE TRUE}
  IN  [files |-> [f \in DOMAIN fs \ deleted |-> fs[f]],
       count |-> Cardinality(deleted)]

(***************************************************************************)
(* sec_client.py: endpoints, throttle, retry loop                           *)
(***************************************************************************)
base_url == <<"h", "t", "t", "p", "s", ":", "/", "/", "d", "a", "t", "a", ".", "s", "e", "c", ".", "g", "o", "v">>

submissions_url == base_url \o <<"/", "s", "u", "b", "m", "i", "s", "s", "i", "o", "n", "s">>

api_url == base_url \o <<"/", "a", "p", "i", "/", "x", "b", "r", "l">>

Endpoints ==
  {"get_company_submissions", "get_company_facts", "get_company_concept",
   "get_frames"}

\* the value bound to a parameter passed by keyword, or the parameter's default
kwarg(call, name, default) ==
  IF \E i \in 1..Len(call.kwargs) : call.kwargs[i][1] = name
  THEN call.kwargs[CHOOSE i \in 1..Len(call.kwargs) : call.kwargs[i][1] = name][2]
  ELSE default

\* str(v), as an f-string formats a value
format_value(v) == IF v.t = "str" THEN v.s ELSE repr_value(v)

\* sec_client.py:231: `quarter and not 1 <= quarter <= 4`
quarter_rejected(quarter) ==
  truth(quarter) /\ ~(1 <= quarter.n /\ quarter.n <= 4)

\* a variant that marks an instantaneous annual period too
period_marked(year, quarter, instantaneous) ==
  (IF truth(quarter)
   THEN <<"C", "Y">> \o format_value(year) \o <<"Q">> \o format_value(quarter)
   ELSE <<"C", "Y">> \o format_value(year))
    \o (IF truth(instantaneous) THEN <<"I">> ELSE <<>>)

\* sec_client.py:234-240
period(year, quarter, instantaneous) ==
  IF truth(quarter)
  THEN <<"C", "Y">> \o format_value(year) \o <<"Q">> \o format_value(quarter)
         \o (IF truth(instantaneous) THEN <<"I">> ELSE <<>>)
  ELSE <<"C", "Y">> \o format_value(year)

\* get_frames up to its call of _make_request (sec_client.py:231-243)
frames_url(call) ==
  LET quarter == kwarg(call, S_quarter, PyNone)
  IN  IF quarter_rejected(quarter) THEN [raised |-> TRUE, url |-> <<>>]
      ELSE [raised |-> FALSE,
            url |-> api_url \o <<"/", "f", "r", "a", "m", "e", "s", "/">>
                      \o format_value(kwarg(call, S_taxonomy, PyNone)) \o <<"/">>
                      \o format_value(kwarg(call, S_tag, PyNone)) \o <<"/">>
                      \o format_value(kwarg(call, S_unit, PyNone)) \o <<"/">>
                      \o period(kwarg(call, S_year, PyNone), quarter,
                                kwarg(call, S_instantaneous, PyBool(FALSE)))
                      \o <<".", "j", "s", "o", "n">>]

\* the function body up to its call of _make_request: the normalized
\* identifier is validated first, then the URL is formatted
endpoint_url(call) ==
  IF call.func = "get_frames" THEN frames_url(call) ELSE
  LET cik == validate_cik(call.args[1])
  IN  IF cik.raised THEN [raised |-> TRUE, url |-> <<>>]
      ELSE [raised |-> FALSE,
            url |->
              CASE call.func = "get_company_submissions" ->
                     submissions_url \o <<"/", "C", "I", "K">> \o cik.value \o <<".", "j", "s", "o", "n">>
                [] call.func = "get_company_facts" ->
                     api_url \o <<"/", "c", "o", "m", "p", "a", "n", "y", "f", "a", "c", "t", "s", "/", "C", "I", "K">> \o cik.value \o <<".", "j", "s", "o", "n">>
                [] call.func = "get_company_concept" ->
                     api_url \o <<"/", "c", "o", "m", "p", "a", "n", "y", "c", "o", "n", "c", "e", "p", "t", "/", "C", "I", "K">> \o cik.value \o <<"/">> \o call.args[2]
                       \o <<"/">> \o call.args[3] \o <<".", "j", "s", "o", "n">>]

\* what requests.request and the three lines after it make of a response:
\*   "ok"    the parsed body is returned                    (sec_client.py:74)
\*   "rate"  SECRateLimitError                              (sec_client.py:71)
\*   "fail"  a requests.exceptions.RequestException: Timeout, ConnectionError,
\*           the HTTPError raise_for_status() raises for 4xx and 5xx, the
\*           JSONDecodeError response.json() raises on a body that is no JSON
\*           (a RequestException since requests 2.27; setup.py asks >= 2.31)
classify(resp) ==
  IF resp.exc # "none" THEN "fail"
  ELSE IF resp.status = 429 THEN "rate"
  ELSE IF resp.status >= 400 /\ resp.status < 600 THEN "fail"
  ELSE IF resp.json THEN "ok"
  ELSE "fail"

Responses ==
  {[exc |-> e, status |-> 0, json |-> FALSE] : e \in {"Timeout", "ConnectionError"}}
    \cup {[exc |-> "none", status |-> 200, json |-> j] : j \in BOOLEAN}
    \cup {[exc |-> "none", status |-> 300, json |-> TRUE]}
    \cup {[exc |-> "none", status |-> s, json |-> FALSE] : s \in {429, 500}}

\* sec_client.py:44-47: the argument of time.sleep, 0 when it is not called
rate_limit_sleep(t, last) ==
  IF t - last < SEC_RATE_LIMIT_DELAY THEN SEC_RATE_LIMIT_DELAY - (t - last) ELSE 0

\* a variant without the backoff
retry_sleep_flat(class, k) == SEC_RETRY_DELAY

\* sec_client.py:79 and :85: the argument of time.sleep before the next attempt
retry_sleep(class, k) ==
  IF class = "rate" THEN SEC_RETRY_DELAY * (k + 1) ELSE SEC_RETRY_DELAY

\* sec_client.py:77 and :82
last_attempt(k) == k = max_retries - 1

\* sec_client.py:65: range(self.max_retries) has no element, the loop body
\* never runs and the function ends without a return statement
loop_is_empty == max_retries <= 0

(***************************************************************************)
(* cache.py:72-79 between processes.  cache_file.open('w') truncates the    *)
(* file in place; json.dump hands the text to the buffered file object,     *)
(* which writes it out a buffer at a time at the process's own offset, the  *)
(* last buffer when the with block closes the file.  A chunk is what one    *)
(* write puts into the file.                                                *)
(***************************************************************************)
Writers == {1, 2}

\* the largest number of chunks an entry is written in
MaxChunks == 2

\* chunk i of the n chunks of the entry process w writes: the entries of two
\* processes differ in their cached_at and in what they fetched
Chunk(w, i, n) == [w |-> w, i |-> i, n |-> n]

\* the bytes a write beyond the end of the file leaves before it
Hole == [w |-> 0, i |-> 0, n |-> 0]

\* the text json.dump produces for the entry of process w
Entry(w, n) == [i \in 1..n |-> Chunk(w, i, n)]

\* open('w') on an existing or a new file
truncate(file) == [exists |-> TRUE, content |-> <<>>]

\* write(chunk) at offset off of a file description of its own
write_at(content, off, chunk) ==
  [i \in 1..(IF off + 1 > Len(content) THEN off + 1 ELSE Len(content)) |->
     IF i = off + 1 THEN chunk
     ELSE IF i <= Len(content) THEN content[i]
     ELSE Hole]

\* the content is the complete text of one process's entry
IsEntry(content) ==
  \E w \in Writers : \E n \in 1..Len(content) : content = Entry(w, n)

\* the content is made of the chunks, each in its place, of entries of equal
\* shape
SameShape(content) ==
  /\ Len(content) > 0
  /\ \A i \in 1..Len(content) : content[i].i = i /\ content[i].n = Len(content)

\* what open('r') + json.load + the field accesses can get from the file
\* (cache.py:55-58): a text pieced together from two entries of equal shape
\* may or may not parse
read_outcomes(exists, content) ==
  IF ~exists THEN {[kind |-> "absent", of |-> 0]}
  ELSE IF IsEntry(content) THEN {[kind |-> "entry", of |-> content[1].w]}
  ELSE IF SameShape(content)
  THEN {[kind |-> "unparsable", of |-> 0], [kind |-> "mixed", of |-> 0]}
  ELSE {[kind |-> "unparsable", of |-> 0]}

(***************************************************************************)
(* industry_analyzer.py.  The client's get_frames is the environment: for   *)
(* each tag it raises, returns a payload without 'data', or returns the     *)
(* rows of the frame.                                                       *)
(***************************************************************************)
\* self.key_metrics (industry_analyzer.py:14-20)
key_metrics ==
  [Assets |-> [tag |-> "Assets", unit |-> "USD"],
   Revenue |-> [tag |-> "Revenues", unit |-> "USD"],
   NetIncome |-> [tag |-> "NetIncomeLoss", unit |-> "USD"],
   OperatingIncome |-> [tag |-> "OperatingIncomeLoss", unit |-> "USD"],
   EarningsPerShare |-> [tag |-> "EarningsPerShareDiluted", unit |-> "USD-per-shares"]]

\* list(self.key_metrics.keys())
key_metrics_keys ==
  <<"Assets", "Revenue", "NetIncome", "OperatingIncome", "EarningsPerShare">>

Tags == {key_metrics[m].tag : m \in DOMAIN key_metrics}

\* the frame values of the tests are millions
Million == 1000000

MaxRows == 4

MaxVal == 3

\* row i of a frame: {'cik': '000000i', 'val': v, 'entityName': 'Company i'}
FrameRow(i, v) ==
  [cik |-> zfill(str_nat(i), 7), val |-> v * Million,
   entityName |-> <<"C", "o", "m", "p", "a", "n", "y", " ">> \o str_nat(i)]

FrameOf(vals) == [i \in 1..Len(vals) |-> FrameRow(i, vals[i])]

\* the frame of test_get_peer_rankings (tests/test_industry_analyzer.py:71-79)
TestFrame == FrameOf(<<1, 2, 3, 4, 5>>)

Frames ==
  UNION {{FrameOf(vals) : vals \in [1..n -> 1..MaxVal]} : n \in 0..MaxRows}
    \cup {TestFrame}

\* what self.client.get_frames does for a tag
Raises == [kind |-> "raise", data |-> <<>>]

NoDataKey == [kind |-> "nodata", data |-> <<>>]

Data(rows) == [kind |-> "data", data |-> rows]

Outcomes == {Raises, NoDataKey} \cup {Data(rows) : rows \in Frames}

SmallOutcomes ==
  {Raises, NoDataKey, Data(<<>>), Data(FrameOf(<<1, 2, 3>>)), Data(FrameOf(<<2, 2>>)),
   Data(TestFrame)}

\* a frame of any shape under the tag Assets
BigWorlds ==
  {[t \in Tags |-> IF t = "Assets" THEN o
                   ELSE IF t = "Revenues" THEN Raises
                   ELSE Data(FrameOf(<<1, 2, 3>>))] : o \in Outcomes}

\* small frames under every tag
SmallWorlds ==
  {[t \in Tags |-> IF t = "Assets" THEN o1
                   ELSE IF t = "Revenues" THEN o2 ELSE o3] :
     o1 \in SmallOutcomes, o2 \in SmallOutcomes,
     o3 \in {Raises, Data(FrameOf(<<1, 2, 3>>))}}

NoMetrics == [given |-> FALSE, list |-> <<>>]

Given(list) == [given |-> TRUE, list |-> list]

\* the metrics argument: None, or a list without repetition
MetricLists ==
  {NoMetrics}
    \cup {Given(l) : l \in {<<>>, <<"Assets">>, <<"Revenue">>, <<"InvalidMetric">>,
                            <<"Assets", "Revenue">>, <<"Revenue", "Assets">>,
                            <<"InvalidMetric", "Assets">>,
                            <<"Assets", "InvalidMetric", "Revenue">>}}

MetricInputs ==
  (MetricLists \X SmallWorlds) \cup ({Given(<<"Assets">>)} \X BigWorlds)

CikOf(i) == zfill(str_nat(i), 7)

\* companies of the frames, and one that is in no frame
AnalyzerCiks == {CikOf(1), CikOf(2), CikOf(3), CikOf(0)}

PositionInputs ==
  (MetricLists \X SmallWorlds \X AnalyzerCiks \X {PyNone, PyInt(4)})
    \cup ({Given(<<"Assets">>)} \X BigWorlds \X AnalyzerCiks \X {PyInt(4)})

RankedMetrics == {"Assets", "Revenue", "EarningsPerShare", "InvalidMetric"}

TopNs == {0, 1, 3, MaxRows + 1}

RankInputs ==
  (RankedMetrics \X TopNs \X SmallWorlds) \cup ({"Assets"} \X TopNs \X BigWorlds)

\* a dict as the sequence of its items: d[k] = v
put(d, k, v) ==
  IF \E i \in 1..Len(d) : d[i].key = k
  THEN [i \in 1..Len(d) |-> IF d[i].key = k THEN [key |-> k, value |-> v] ELSE d[i]]
  ELSE Append(d, [key |-> k, value |-> v])

\* a variant that gives up at the first fetch that raises
RECURSIVE industry_loop_abort(_, _, _, _)
industry_loop_abort(metrics, i, world, acc) ==
  IF i > Len(metrics) THEN acc
  ELSE LET metric == metrics[i]
       IN  IF metric \notin DOMAIN key_metrics
           THEN industry_loop_abort(metrics, i + 1, world, acc)
           ELSE LET config     == key_metrics[metric]
                    frame_data == world[config.tag]
                    seen       == [acc EXCEPT !.fetched = Append(@, config.tag)]
                IN  IF frame_data.kind = "raise" THEN seen
                    ELSE industry_loop_abort(metrics, i + 1, world,
                           IF frame_data.kind = "data"
                           THEN [seen EXCEPT !.results = put(@, metric, frame_data.data)]
                           ELSE seen)

\* the loop of get_industry_metrics (industry_analyzer.py:40-60) from its
\* i-th metric on; acc holds results and the tags fetched so far
RECURSIVE industry_loop(_, _, _, _)
industry_loop(metrics, i, world, acc) ==
  IF i > Len(metrics) THEN acc
  ELSE LET metric == metrics[i]
       IN  IF metric \notin DOMAIN key_metrics
           THEN industry_loop(metrics, i + 1, world, acc)
           ELSE LET config     == key_metrics[metric]
                    frame_data == world[config.tag]
                    seen       == [acc EXCEPT !.fetched = Append(@, config.tag)]
                IN  industry_loop(metrics, i + 1, world,
                      IF frame_data.kind = "data"
                      THEN [seen EXCEPT !.results = put(@, metric, frame_data.data)]
                      ELSE seen)

\* `metrics or list(self.key_metrics.keys())`
metrics_or_default(metrics) ==
  IF metrics.given /\ Len(metrics.list) > 0 THEN metrics.list ELSE key_metrics_keys

\* industry_analyzer.py:22-62
get_industry_metrics(metrics, world) ==
  industry_loop(metrics_or_default(metrics), 1, world,
                [results |-> <<>>, fetched |-> <<>>])

Remove(seq, i) == SubSeq(seq, 1, i - 1) \o SubSeq(seq, i + 1, Len(seq))

\* the first row that holds the largest val
first_largest(rows) ==
  CHOOSE i \in 1..Len(rows) :
    /\ \A j \in 1..Len(rows) : rows[j].val <= rows[i].val
    /\ \A j \in 1..(i - 1) : rows[j].val < rows[i].val

\* a variant that takes the first n rows as they come
nlargest_head(n, rows) ==
  IF n <= 0 THEN <<>> ELSE SubSeq(rows, 1, IF n < Len(rows) THEN n ELSE Len(rows))

\* DataFrame.nlargest(n, 'val'), keep='first'
RECURSIVE nlargest(_, _)
nlargest(n, rows) ==
  IF n <= 0 \/ Len(rows) = 0 THEN <<>>
  ELSE LET i == first_largest(rows)
       IN  <<rows[i]>> \o nlargest(n - 1, Remove(rows, i))

\* the digits of a number in groups of three: the ',' of a format spec
RECURSIVE group_thousands(_)
group_thousands(d) ==
  IF Len(d) <= 3 THEN d
  ELSE group_thousands(SubSeq(d, 1, Len(d) - 3)) \o <<",">>
         \o SubSeq(d, Len(d) - 2, Len(d))

\* '${:,.0f}'.format(v) and '{:,.2f}'.format(v) of a whole number v >= 0
format_val(unit, v) ==
  IF unit = "USD" THEN <<"$">> \o group_thousands(str_nat(v))
  ELSE group_thousands(str_nat(v)) \o <<".", "0", "0">>

\* industry_analyzer.py:115-163
get_peer_rankings(metric, top_n, world) ==
  IF metric \notin DOMAIN key_metrics
  THEN [raised |-> "ValueError", fetched |-> <<>>, top |-> <<>>]
  ELSE LET config     == key_metrics[metric]
           frame_data == world[config.tag]
           top_companies == nlargest(top_n, frame_data.data)
       IN  [raised |-> "none", fetched |-> <<config.tag>>,
            top |-> IF frame_data.kind = "data" /\ Len(frame_data.data) > 0
                    THEN [i \in 1..Len(top_companies) |->
                            [entityName |-> top_companies[i].entityName,
                             val |-> format_val(config.unit, top_companies[i].val),
                             cik |-> top_companies[i].cik]]
                    ELSE <<>>]

\* the vals of a frame in ascending order
RECURSIVE sorted_vals(_)
sorted_vals(rows) ==
  IF Len(rows) = 0 THEN <<>>
  ELSE LET i == first_largest(rows)
       IN  Append(sorted_vals(Remove(rows, i)), rows[i].val)

\* df['val'].describe()['50%'] as a fraction
median(rows) ==
  LET s == sorted_vals(rows)
      n == Len(s)
  IN  IF n % 2 = 1 THEN [num |-> s[(n + 1) \div 2], den |-> 1]
      ELSE [num |-> s[n \div 2] + s[(n \div 2) + 1], den |-> 2]

RECURSIVE sum_vals(_)
sum_vals(rows) == IF Len(rows) = 0 THEN 0 ELSE rows[1].val + sum_vals(Tail(rows))

\* a variant that counts the values strictly below the company's
percentile_strict(rows, company_value) ==
  [num |-> 100 * Cardinality({i \in 1..Len(rows) : rows[i].val < company_value}),
   den |-> Len(rows)]

\* (df['val'] <= company_value).mean() * 100 as a fraction
percentile(rows, company_value) ==
  [num |-> 100 * Cardinality({i \in 1..Len(rows) : rows[i].val <= company_value}),
   den |-> Len(rows)]

\* f"{'Q'+str(quarter) if quarter else 'FY'}{year}"
period_label(quarter, year) ==
  (IF truth(quarter) THEN <<"Q">> \o format_value(quarter) ELSE <<"F", "Y">>)
    \o format_value(year)

\* the loop of analyze_company_position (industry_analyzer.py:84-111) from
\* the i-th item of industry_data on
RECURSIVE position_loop(_, _, _, _, _)
position_loop(industry_data, i, cik, quarter, year) ==
  IF i > Len(industry_data) THEN <<>>
  ELSE LET metric == industry_data[i].key
           df     == industry_data[i].value
           IsCompany(r) == r.cik = cik
           company_row == SelectSeq(df, IsCompany)
           rest   == position_loop(industry_data, i + 1, cik, quarter, year)
       IN  IF Len(df) = 0 \/ Len(company_row) = 0 THEN rest
           ELSE <<[metric |-> metric,
                   company_value |-> company_row[1].val,
                   industry_median |-> median(df),
                   industry_mean |-> [num |-> sum_vals(df), den |-> Len(df)],
                   percentile |-> percentile(df, company_row[1].val),
                   num_companies |-> Len(df),
                   period |-> period_label(quarter, year)]>> \o rest

\* industry_analyzer.py:64-113
analyze_company_position(cik, year, quarter, metrics, world) ==
  LET industry == get_industry_metrics(metrics, world)
  IN  [fetched |-> industry.fetched,
       rows |-> position_loop(industry.results, 1, cik, quarter, year)]

(***************************************************************************)
(* processors/ and templates/.  A table is the set of its column names; a   *)
(* message is the sequence of the pieces it is formatted from.              *)
(***************************************************************************)
StatementKinds == {"balance_sheet", "income_statement", "cash_flow"}

\* self.required_fields of the three processors
required_fields(kind) ==
  CASE kind = "balance_sheet" ->
         <<"Total Assets", "Total Liabilities", "Total Stockholders Equity">>
    [] kind = "income_statement" ->
         <<"Revenue", "Gross Profit", "Operating Income",
           "Net Income (loss) (continous operations)">>
    [] kind = "cash_flow" ->
         <<"(Operating Activities) Cash Flow from Operating Activities",
           "(Investing Activities) Cash Flow from Investing Activities",
           "(Financing Activities) Cash Flow from Financing Activities">>

\* the class of self.template
template_class(kind) ==
  CASE kind = "balance_sheet" -> "BalanceSheetTemplate"
    [] kind = "income_statement" -> "IncomeStatementTemplate"
    [] kind = "cash_flow" -> "CashFlowTemplate"

\* the attributes an instance of the template has: those its __init__ sets,
\* and its method
template_attributes(kind) ==
  CASE kind = "balance_sheet" ->
         {"assets", "liabilities", "equity", "concept_map", "get_path_for_concept"}
    [] kind = "income_statement" ->
         {"revenues", "costs_and_expenses", "other_income_expense", "income_taxes",
          "gross_profit", "operating_income", "income_before_tax", "net_income",
          "earnings_per_share", "concept_map", "get_path_for_concept"}
    [] kind = "cash_flow" ->
         {"operating_activities", "investing_activities", "financing_activities",
          "net_cash_operating", "net_cash_investing", "net_cash_financing",
          "net_change_in_cash", "cash_beginning_period", "cash_end_period",
          "concept_map", "get_path_for_concept"}

\* the template attributes process_company_facts reads, in the order it reads
\* them
mapping_names(kind) ==
  CASE kind = "balance_sheet" ->
         <<"ASSETS_MAPPING", "LIABILITIES_MAPPING", "EQUITY_MAPPING">>
    [] kind = "income_statement" ->
         <<"REVENUE_MAPPING", "OPERATING_EXPENSES_MAPPING", "OTHER_ITEMS_MAPPING">>
    [] kind = "cash_flow" ->
         <<"OPERATING_ACTIVITIES_MAPPING", "INVESTING_ACTIVITIES_MAPPING",
           "FINANCING_ACTIVITIES_MAPPING">>

\* self.template.<name>: AttributeError when the instance has no such
\* attribute; none of the attributes that exist is a mapping the processors
\* read
template_attr(kind, name) ==
  IF name \in template_attributes(kind)
  THEN [raised |-> FALSE, error |-> <<>>, value |-> <<>>]
  ELSE [raised |-> TRUE,
        error |-> <<"'", template_class(kind), "' object has no attribute '",
                    name, "'">>,
        value |-> <<>>]

\* the statement as the messages of process_company_facts name it
no_data_name(kind) ==
  CASE kind = "balance_sheet" -> "balance sheet"
    [] kind = "income_statement" -> "income statement"
    [] kind = "cash_flow" -> "cash flow"

failed_name(kind) ==
  CASE kind = "balance_sheet" -> "balance sheet"
    [] kind = "income_statement" -> "income statement"
    [] kind = "cash_flow" -> "cash flow statement"

NoTable == {}

ProcessingError(message) ==
  [raised |-> "ProcessingError", message |-> message, built |-> FALSE,
   returned |-> FALSE, result |-> NoTable]

\* a variant that raises only when no required field is a column
validate_required_fields_any(columns, required) ==
  LET IsMissing(field) == field \notin columns
      missing_fields == SelectSeq(required, IsMissing)
  IN  IF Len(missing_fields) = Len(required) /\ Len(required) > 0
      THEN [raised |-> TRUE,
            message |-> <<"Missing required fields: ">>
                          \o join(<<", ">>, [i \in 1..Len(missing_fields) |->
                                              <<missing_fields[i]>>])]
      ELSE [raised |-> FALSE, message |-> <<>>]

\* base_processor.py:123-140
validate_required_fields(columns, required) ==
  LET IsMissing(field) == field \notin columns
      missing_fields == SelectSeq(required, IsMissing)
  IN  IF Len(missing_fields) > 0
      THEN [raised |-> TRUE,
            message |-> <<"Missing required fields: ">>
                          \o join(<<", ">>, [i \in 1..Len(missing_fields) |->
                                              <<missing_fields[i]>>])]
      ELSE [raised |-> FALSE, message |-> <<>>]

\* base_processor.py:94-121 on the column names
standardize_line_items(columns, mapping) ==
  {mapping[sec_tag] : sec_tag \in {t \in DOMAIN mapping : t \in columns}}

\* _calculate_derived_fields of the three processors: the columns they add in
\* order, each with the columns its `if` asks for (balance_sheet_processor.py:
\* 99-109, income_statement_processor.py:100-110, cash_flow_processor.py:99-129)
derived_rules(kind) ==
  CASE kind = "balance_sheet" ->
         <<[name |-> "Working Capital",
            inputs |-> {"Total Current Assets", "Total Current Liabilities"}],
           [name |-> "Total Assets (Calculated)",
            inputs |-> {"Total Current Assets", "Total Non Current Assets"}],
           [name |-> "Debt to Equity Ratio",
            inputs |-> {"Total Liabilities", "Total Stockholders Equity"}]>>
    [] kind = "income_statement" ->
         <<[name |-> "Gross Profit Margin", inputs |-> {"Gross Profit", "Revenue"}],
           [name |-> "Operating Margin", inputs |-> {"Operating Income", "Revenue"}],
           [name |-> "Net Profit Margin",
            inputs |-> {"Net Income (loss) (continous operations)", "Revenue"}]>>
    [] kind = "cash_flow" ->
         <<[name |-> "Free Cash Flow",
            inputs |-> {"(Operating Activities) Cash Flow from Operating Activities",
                        "(Investing Activities) Purchase of Property, Plant and Equipment"}],
           [name |-> "Total Cash Flow",
            inputs |-> {"(Operating Activities) Cash Flow from Operating Activities",
                        "(Investing Activities) Cash Flow from Investing Activities",
                        "(Financing Activities) Cash Flow from Financing Activities"}],
           [name |-> "Operating Cash Flow Ratio",
            inputs |-> {"(Operating Activities) Cash Flow from Operating Activities",
                        "Total Current Liabilities"}]>>

\* the values of a table as far as _calculate_derived_fields depends on them:
\*   nonzero    df['Total Current Liabilities'].any()
\*   raises_at  the computation (1..3) whose arithmetic raises on the values
\*              (a column of strings, say), 0 when none does
PlainValues == [nonzero |-> TRUE, raises_at |-> 0]

\* the test of the i-th `if`
rule_applies(kind, i, columns, values) ==
  /\ derived_rules(kind)[i].inputs \subseteq columns
  /\ (kind = "cash_flow" /\ i = 3) => values.nonzero

\* a variant whose tests ask for one of the inputs
rule_applies_any(kind, i, columns, values) ==
  /\ derived_rules(kind)[i].inputs \cap columns # {}
  /\ (kind = "cash_flow" /\ i = 3) => values.nonzero

\* a variant that adds a derived column when one of its inputs is there
calculate_derived_fields_any(kind, columns, values) ==
  LET rules == derived_rules(kind)
      Reached(i) ==
        \A j \in 1..i : ~(j = values.raises_at /\ rule_applies_any(kind, j, columns, values))
  IN  [raised |-> "none",
       result |-> columns \cup {rules[i].name : i \in {k \in 1..Len(rules) :
                                   rule_applies_any(kind, k, columns, values) /\ Reached(k)}}]

\* _calculate_derived_fields: the computations up to the first that raises
\* add their column; the exception is logged and df returned as it is then
calculate_derived_fields(kind, columns, values) ==
  LET rules == derived_rules(kind)
      Reached(i) ==
        \A j \in 1..i : ~(j = values.raises_at /\ rule_applies(kind, j, columns, values))
  IN  [raised |-> "none",
       result |-> columns \cup {rules[i].name : i \in {k \in 1..Len(rules) :
                                   rule_applies(kind, k, columns, values) /\ Reached(k)}}]

\* process_company_facts of the three processors (balance_sheet_processor.py:
\* 21-94, income_statement_processor.py:22-95, cash_flow_processor.py:21-94).
\* facts.series gives, for every tag under 'us-gaap', what its data holds:
\* "usd" a USD series with val and end, "empty" an empty USD series, "nousd"
\* no USD unit.  The first pass of the loop over the tags reads the first
\* mapping attribute of the template.
process_company_facts(kind, facts) ==
  IF ~facts.usgaap
  THEN ProcessingError(<<"No US GAAP data found in company facts">>)
  ELSE
    LET tags  == DOMAIN facts.series
        attrs == [i \in 1..3 |-> template_attr(kind, mapping_names(kind)[i])]
        unexpected(e) ==
          ProcessingError(<<"Failed to process ", failed_name(kind), ": ">> \o e)
        InMapping(t) == \E i \in 1..3 : t \in DOMAIN attrs[i].value
        items == {t \in tags : InMapping(t) /\ facts.series[t] = "usd"}
    IN  IF tags # {} /\ attrs[1].raised THEN unexpected(attrs[1].error)
        ELSE IF \E t \in tags : \E i \in 2..3 :
                  attrs[i].raised /\ \A j \in 1..(i - 1) : t \notin DOMAIN attrs[j].value
        THEN unexpected(attrs[CHOOSE i \in 2..3 : attrs[i].raised].error)
        ELSE IF items = {}
        THEN ProcessingError(<<"No ", no_data_name(kind), " data found">>)
        ELSE IF \E i \in 1..3 : attrs[i].raised
        THEN [unexpected(attrs[CHOOSE i \in 1..3 : attrs[i].raised].error)
                EXCEPT !.built = TRUE]
        ELSE
          LET df       == {"end"} \cup items
              renamed  == UNION {standardize_line_items(df, attrs[i].value) : i \in 1..3}
              result   == renamed \cup {"period_end_date"}
              checked  == validate_required_fields(result, required_fields(kind))
          IN  IF checked.raised
              THEN [ProcessingError(checked.message) EXCEPT !.built = TRUE]
              ELSE [raised |-> "none", message |-> <<>>, built |-> TRUE,
                    returned |-> TRUE,
                    result |-> calculate_derived_fields(kind, result, PlainValues).result]

(***************************************************************************)
(* The calls the environment makes                                          *)
(***************************************************************************)
MockCalls ==
  {[func |-> "mock_api_call", self |-> 0, args |-> <<s>>, kwargs |-> <<>>] :
     s \in {S_test1, S_another}}

EndpointCalls ==
  {[func |-> f, self |-> 1, args |-> <<c>>, kwargs |-> <<>>] :
     f \in {"get_company_submissions", "get_company_facts"},
     c \in {S_28917, S_invalid}}
  \cup {[func |-> "get_company_concept", self |-> 1,
         args |-> <<S_invalid, S_us_gaap, S_Assets>>, kwargs |-> <<>>]}

Calls ==
  {[func |-> "mock_api_call", self |-> 0, args |-> <<S_test1>>, kwargs |-> <<>>]}
    \cup EndpointCalls

\* two client instances side by side
PeerCalls ==
  {[func |-> f, self |-> 1, args |-> <<S_28917>>, kwargs |-> <<>>] :
     f \in {"get_company_submissions", "get_company_facts"}}
  \cup {[func |-> "get_company_submissions", self |-> 2,
         args |-> <<S_28917>>, kwargs |-> <<>>]}

\* get_frames with its parameters passed by keyword, as the analyzer and the
\* tests pass them
FrameCall(tag, year, quarter, more) ==
  [func |-> "get_frames", self |-> 1, args |-> <<>>,
   kwargs |-> <<<<S_taxonomy, PyStr(S_us_gaap)>>, <<S_tag, PyStr(tag)>>,
                <<S_unit, PyStr(S_USD)>>, <<S_year, PyInt(year)>>,
                <<S_quarter, quarter>>>> \o more]

\* the quarters at and beyond the two ends of 1..4
Quarters ==
  {PyInt(q) : q \in ((0 - QuarterMargin)..1) \cup (4..(4 + QuarterMargin))}

FrameCalls == {FrameCall(S_Assets, 2024, q, <<>>) : q \in Quarters}

\* get_frames without quarter, the keyword arguments that follow year in more
AnnualCall(tag, year, more) ==
  [func |-> "get_frames", self |-> 1, args |-> <<>>,
   kwargs |-> <<<<S_taxonomy, PyStr(S_us_gaap)>>, <<S_tag, PyStr(tag)>>,
                <<S_unit, PyStr(S_USD)>>, <<S_year, PyInt(year)>>>> \o more]

\* annual, quarterly and instantaneous requests, of two years and two tags
PeriodCalls ==
  {AnnualCall(S_Assets, 2024, <<>>),
   AnnualCall(S_Assets, 2023, <<<<S_quarter, PyNone>>>>),
   AnnualCall(S_Assets, 2024, <<<<S_instantaneous, PyBool(TRUE)>>>>),
   FrameCall(S_Assets, 2024, PyInt(1), <<>>),
   FrameCall(S_Assets, 2023, PyInt(4), <<<<S_instantaneous, PyBool(FALSE)>>>>),
   FrameCall(S_Assets, 2024, PyInt(1), <<<<S_instantaneous, PyBool(TRUE)>>>>),
   FrameCall(S_Revenues, 2024, PyInt(1), <<<<S_instantaneous, PyBool(TRUE)>>>>)}

NoPattern == [given |-> FALSE, text |-> <<>>]

Patterns ==
  {NoPattern}
    \cup {[given |-> TRUE, text |-> s] :
            s \in {<<>>, <<"t", "e", "s", "t">>, <<"m", "o", "c", "k">>, S_28917}}

NoCall == [func |-> "none", self |-> 0, args |-> <<>>, kwargs |-> <<>>]

\* cur: the call, and what was observed of it
\*   start, ended      the clock when it was entered and when it ended
\*   had_file, pre     the cache file of its key when it was entered
\*   after_clear_all   it directly follows a clear_cache() without pattern
\*   after_refresh     it directly follows a call of the same function and
\*                     arguments that found its entry expired and returned
\*   after_ok          it directly follows a call of the same function and
\*                     arguments that returned a value, and when that ended
\*   invoked           how often the wrapped function was entered
\*   nreq, first_issue the requests it put on the wire, and when the first
\*   fresh             the value the wrapped function returned
NoCur ==
  [call |-> NoCall, done |-> FALSE, start |-> 0, ended |-> 0,
   had_file |-> FALSE, pre |-> NoEntry, after_clear_all |-> FALSE,
   after_refresh |-> [valid |-> FALSE, at |-> 0, value |-> NoData],
   after_ok |-> [valid |-> FALSE, at |-> 0],
   invoked |-> 0, nreq |-> 0, first_issue |-> 0, url |-> <<>>,
   fresh |-> NoData]

NoResp == [exc |-> "none", status |-> 0, json |-> FALSE]

\* net: what was observed on the wire
\*   all_429, all_bad  every response of the call so far was a 429 / was a
\*                     timeout, a connection error or a non-2xx status other
\*                     than 429
\*   last_resp         the last response of the call, when it arrived, and
\*   last_sleep        the argument of the time.sleep that followed it
\*   issued_at         per client, when its last request went out
\*   gap               the time between the last request and the one before
\*                     it of the same client (-1: there was none before)
NoNet ==
  [all_429 |-> TRUE, all_bad |-> TRUE, last_resp |-> NoResp,
   last_resp_at |-> 0, last_sleep |-> 0, gap |-> -1,
   issued_at |-> [c \in Clients |-> -1]]

is_429(resp) == resp.exc = "none" /\ resp.status = 429

is_2xx(resp) == resp.exc = "none" /\ resp.status >= 200 /\ resp.status < 300

\* "a timeout, connection error or non-2xx response other than 429"
is_bad(resp) == ~is_2xx(resp) /\ ~is_429(resp)

\* the entry of a call's key was older than the TTL when the call was entered
WasExpired(c) ==
  /\ c.had_file
  /\ c.pre # Corrupt
  /\ has_ttl(c.call.func)
  /\ c.start - c.pre.cached_at > expires_after(c.call.func)

NoClr == [valid |-> FALSE, pattern |-> NoPattern, before |-> EmptyDir, count |-> 0]

NoRet == [kind |-> "none", value |-> NoData]

NoCikRun ==
  [stage |-> "off", x |-> <<>>, y |-> <<>>,
   nx |-> [raised |-> FALSE, value |-> <<>>],
   ny |-> [raised |-> FALSE, value |-> <<>>],
   nnx |-> [raised |-> FALSE, value |-> <<>>]]

\* disk: what the next file operation under settings.CACHE_DIR does
\*   dir    "ok", or "blocked": the directory is gone and cannot be made again
\*          (its parent was removed, or a regular file took its name), so that
\*          CACHE_DIR.mkdir(exist_ok=True) raises
\*   write  "ok"; "open": cache_file.open('w') raises (no permission, read-only
\*          file system); "dump": json.dump raises after open('w') truncated
\*          the file (disk full, payload not serializable)
HealthyDisk == [dir |-> "ok", write |-> "ok"]

DiskStates == [dir : {"ok", "blocked"}, write : {"ok", "open", "dump"}]

\* ana_run: the arguments of the call, the outcomes of get_frames, and what
\* the call did: the exception it raised, the tags it asked get_frames for in
\* order, and its result (tables of get_industry_metrics, rows of
\* analyze_company_position, top of get_peer_rankings)
NoAnaRun ==
  [stage |-> "off", method |-> "none", metric |-> "none", top_n |-> 0,
   cik |-> <<>>, quarter |-> PyNone, metrics |-> [given |-> FALSE, list |-> <<>>],
   world |-> <<>>, raised |-> "none", fetched |-> <<>>, tables |-> <<>>,
   rows |-> <<>>, top |-> <<>>]

\* stmt_run: the processor and its input (the facts, or the columns of the
\* table passed to validate_required_fields), and what the call did: the
\* exception and its message, whether a table had been built, and the columns
\* of the statement returned
NoStmtRun ==
  [stage |-> "off", method |-> "none", kind |-> "none",
   facts |-> [usgaap |-> FALSE, series |-> <<>>, field |-> <<>>],
   columns |-> {}, values |-> PlainValues, raised |-> "none", message |-> <<>>,
   built |-> FALSE, returned |-> FALSE, result |-> {}]

\* race: processes that run the wrapper for one key side by side
\*   exists, content  the cache file of the key: the chunks it holds
\*   proc             per process: its position in the wrapper, the number of
\*                    chunks its entry serializes to, and how many of them it
\*                    has written
\*   closed           the processes that have closed the file, in that order
\*   read             what the last open('r') + json.load of some process got
NoRace ==
  [exists |-> FALSE, content |-> <<>>,
   proc |-> [w \in Writers |-> [pc |-> "start", n |-> 0, off |-> 0]],
   closed |-> <<>>, read |-> [kind |-> "none", of |-> 0]]

\* time.time() is far above min_request_interval when a client is built, so
\* that its first request never waits: the clock starts at the interval
Init ==
  /\ now = SEC_RATE_LIMIT_DELAY
  /\ last_request_time = [c \in Clients |-> 0]
  /\ files = EmptyDir
  /\ pc = "idle"
  /\ attempt = 0
  /\ cur = NoCur
  /\ ret = NoRet
  /\ net = NoNet
  /\ clr = NoClr
  /\ cik_run = NoCikRun
  /\ disk = HealthyDisk
  /\ ana_run = NoAnaRun
  /\ stmt_run = NoStmtRun
  /\ race = NoRace
  /\ max_retries = SEC_MAX_RETRIES

(***************************************************************************)
(* Actions                                                                  *)
(***************************************************************************)
\* time passes between two calls of the program
Tick ==
  /\ pc = "idle"
  /\ now < MaxTime
  /\ now' = now + 1
  /\ UNCHANGED <<last_request_time, files, pc, attempt, cur, ret, net, clr, cik_run, disk, ana_run, stmt_run, race,
                 max_retries>>

\* mock_api_call (tests/test_cache.py): the wrapped operation needs no network
mock_result(call, t) == [src |-> call.args[1], stamp |-> t]

\* A call of a function of Calls: the wrapper's mkdir and lookup
\* (cache.py:45-66), and on a miss the wrapped function up to its first
\* blocking step.  A function that carries no decorator is entered directly.
Call(call) ==
  /\ pc = "idle"
  /\ now <= MaxTime
  /\ LET file == cache_file(cache_key(call))
         had  == is_cached(call.func) /\ file \in DOMAIN files
         lk   == lookup(files, call, now)
         base == [NoCur EXCEPT !.call = call, !.start = now, !.had_file = had,
                               !.pre = IF had THEN files[file] ELSE NoEntry,
                               !.after_clear_all =
                                  clr.valid /\ ~clr.pattern.given,
                               !.after_refresh =
                                  IF /\ cur.done /\ cur.call = call
                                     /\ WasExpired(cur) /\ ret.kind = "return"
                                  THEN [valid |-> TRUE, at |-> cur.ended,
                                        value |-> ret.value]
                                  ELSE NoCur.after_refresh,
                               !.after_ok =
                                  IF /\ cur.done /\ cur.call = call
                                     /\ ret.kind = "return"
                                  THEN [valid |-> TRUE, at |-> cur.ended]
                                  ELSE NoCur.after_ok]
     IN  IF is_cached(call.func) /\ disk.dir = "blocked"
         THEN /\ cur' = [base EXCEPT !.done = TRUE, !.ended = now]
              /\ ret' = [kind |-> "OSError", value |-> NoData]
              /\ UNCHANGED <<files, pc, attempt>>
         ELSE IF is_cached(call.func) /\ lk.hit
         THEN /\ cur' = [base EXCEPT !.done = TRUE, !.ended = now]
              /\ ret' = [kind |-> "return", value |-> lk.data]
              /\ UNCHANGED <<files, pc, attempt>>
         ELSE IF call.func \in Endpoints
         THEN LET u == endpoint_url(call)
              IN  IF u.raised
                  THEN /\ cur' = [base EXCEPT !.done = TRUE, !.ended = now,
                                              !.invoked = 1]
                       /\ ret' = [kind |-> "ValueError", value |-> NoData]
                       /\ files' = files_on_raise(files, call)
                       /\ UNCHANGED <<pc, attempt>>
                  ELSE IF loop_is_empty
                  THEN /\ cur' = [base EXCEPT !.done = TRUE, !.ended = now,
                                              !.invoked = 1, !.url = u.url,
                                              !.fresh = NoneValue]
                       /\ ret' = [kind |-> "return", value |-> NoneValue]
                       /\ files' = IF is_cached(call.func)
                                   THEN write_entry(files, disk, call, now, NoneValue)
                                   ELSE files
                       /\ UNCHANGED <<pc, attempt>>
                  ELSE /\ cur' = [base EXCEPT !.invoked = 1, !.url = u.url]
                       /\ ret' = NoRet
                       /\ pc' = "attempt"
                       /\ attempt' = 0
                       /\ UNCHANGED files
         ELSE LET data == mock_result(call, now)
              IN  /\ files' = write_entry(files, disk, call, now, data)
                  /\ cur' = [base EXCEPT !.done = TRUE, !.ended = now,
                                         !.invoked = 1, !.fresh = data]
                  /\ ret' = [kind |-> "return", value |-> data]
                  /\ UNCHANGED <<pc, attempt>>
  /\ net' = [NoNet EXCEPT !.issued_at = net.issued_at]
  /\ clr' = NoClr
  /\ UNCHANGED <<now, last_request_time, cik_run, disk, ana_run, stmt_run, race,
                 max_retries>>

\* a variant that records the time and does not sleep
rate_limit_nosleep(t, last) == t

\* sec_client.py:42-48: the clock after the sleep, stored as last_request_time
rate_limit(t, last) == t + rate_limit_sleep(t, last)

\* One pass through sec_client.py:67-68: _rate_limit(), then the request is
\* put on the wire.
Attempt ==
  /\ pc = "attempt"
  /\ LET c == cur.call.self
         t == rate_limit(now, last_request_time[c])
     IN  /\ now' = t
         /\ last_request_time' = [last_request_time EXCEPT ![c] = t]
         /\ cur' = [cur EXCEPT !.nreq = @ + 1,
                               !.first_issue = IF cur.nreq = 0 THEN t ELSE @]
         /\ net' = [net EXCEPT !.gap = IF net.issued_at[c] < 0 THEN -1
                                       ELSE t - net.issued_at[c],
                               !.issued_at[c] = t]
  /\ pc' = "inflight"
  /\ UNCHANGED <<files, attempt, ret, clr, cik_run, disk, ana_run, stmt_run, race,
                 max_retries>>

\* The response (or transport exception) arrives d ticks after the request,
\* and sec_client.py:70-85 handle it; a returned payload unwinds through the
\* endpoint into the wrapper, which stores it (cache.py:69-84).
Respond(resp, d) ==
  /\ pc = "inflight"
  /\ LET t     == now + d
         class == classify(resp)
         seen  == [net EXCEPT !.all_429 = @ /\ is_429(resp),
                              !.all_bad = @ /\ is_bad(resp),
                              !.last_resp = resp,
                              !.last_resp_at = t]
     IN  IF class = "ok"
         THEN LET data == [src |-> cur.url, stamp |-> t]
              IN  /\ files' = IF is_cached(cur.call.func)
                              THEN write_entry(files, disk, cur.call, t, data)
                              ELSE files
                  /\ cur' = [cur EXCEPT !.done = TRUE, !.ended = t,
                                        !.fresh = data]
                  /\ ret' = [kind |-> "return", value |-> data]
                  /\ net' = seen
                  /\ now' = t
                  /\ pc' = "idle"
                  /\ UNCHANGED attempt
         ELSE IF last_attempt(attempt)
         THEN /\ cur' = [cur EXCEPT !.done = TRUE, !.ended = t]
              /\ ret' = [kind |-> IF class = "rate" THEN "SECRateLimitError"
                                  ELSE "SECDataError",
                         value |-> NoData]
              /\ net' = seen
              /\ now' = t
              /\ pc' = "idle"
              /\ files' = files_on_raise(files, cur.call)
              /\ UNCHANGED attempt
         ELSE /\ net' = [seen EXCEPT !.last_sleep = retry_sleep(class, attempt)]
              /\ now' = t + retry_sleep(class, attempt)
              /\ attempt' = attempt + 1
              /\ pc' = "attempt"
              /\ UNCHANGED <<files, cur, ret>>
  /\ UNCHANGED <<last_request_time, clr, cik_run, disk, ana_run, stmt_run, race,
                 max_retries>>

\* clear_cache(pattern), cache.py:12-39
ClearCache(pattern) ==
  /\ pc = "idle"
  /\ LET r == clear_cache(files, pattern)
     IN  /\ files' = r.files
         /\ clr' = [valid |-> TRUE, pattern |-> pattern, before |-> files,
                    count |-> r.count]
  /\ cur' = NoCur
  /\ ret' = NoRet
  /\ net' = [NoNet EXCEPT !.issued_at = net.issued_at]
  /\ UNCHANGED <<now, last_request_time, pc, attempt, cik_run, disk, ana_run, stmt_run, race,
                 max_retries>>

Next ==
  \/ Tick
  \/ \E call \in Calls : Call(call)
  \/ Attempt
  \/ \E resp \in Responses, d \in Latencies : Respond(resp, d)
  \/ \E pattern \in Patterns : ClearCache(pattern)

Spec == Init /\ [][Next]_vars

NextPeers ==
  \/ Tick
  \/ \E call \in PeerCalls : Call(call)
  \/ Attempt
  \/ \E resp \in Responses, d \in Latencies : Respond(resp, d)

SpecPeers == Init /\ [][NextPeers]_vars

\* the cache under the functions of tests/test_cache.py alone
NextCache ==
  \/ Tick
  \/ \E call \in MockCalls : Call(call)
  \/ \E pattern \in Patterns : ClearCache(pattern)

SpecCache == Init /\ [][NextCache]_vars

\* the file system changes under the program: the next operations on the
\* cache directory fail as d says
Break(d) ==
  /\ pc = "idle"
  /\ d # disk
  /\ disk' = d
  /\ files' = IF d.dir = "blocked" THEN EmptyDir ELSE files
  /\ UNCHANGED <<now, last_request_time, pc, attempt, cur, ret, net, clr, cik_run,
                 ana_run, stmt_run, race,
                 max_retries>>

\* a cache file loses its content (truncated, overwritten, half written)
Damage(file) ==
  /\ pc = "idle"
  /\ file \in DOMAIN files
  /\ files[file] # Corrupt
  /\ files' = [files EXCEPT ![file] = Corrupt]
  /\ UNCHANGED <<now, last_request_time, pc, attempt, cur, ret, net, clr, cik_run,
                 disk, ana_run, stmt_run, race,
                 max_retries>>

FaultCalls ==
  {[func |-> "mock_api_call", self |-> 0, args |-> <<S_test1>>, kwargs |-> <<>>],
   [func |-> "get_company_submissions", self |-> 1, args |-> <<S_28917>>,
    kwargs |-> <<>>]}

\* the cache on a file system that fails
NextFaults ==
  \/ Tick
  \/ \E call \in FaultCalls : Call(call)
  \/ Attempt
  \/ \E resp \in Responses, d \in Latencies : Respond(resp, d)
  \/ \E d \in DiskStates : Break(d)
  \/ \E file \in DOMAIN files : Damage(file)

SpecFaults == Init /\ [][NextFaults]_vars

\* clear_cache over a directory in which files lose their content
NextSweep ==
  \/ Tick
  \/ \E call \in MockCalls : Call(call)
  \/ \E file \in DOMAIN files : Damage(file)
  \/ \E pattern \in Patterns : ClearCache(pattern)

SpecSweep == Init /\ [][NextSweep]_vars

\* cache.py:54-66 in process w: a complete entry is returned, anything else
\* is a miss
Lookup(w) ==
  /\ race.proc[w].pc = "start"
  /\ \E r \in read_outcomes(race.exists, race.content) :
       race' = [race EXCEPT !.proc[w].pc = IF r.kind \in {"entry", "mixed"}
                                           THEN "hit" ELSE "missed",
                            !.read = r]
  /\ UNCHANGED <<now, last_request_time, files, pc, attempt, cur, ret, net, clr,
                 cik_run, disk, ana_run, stmt_run,
                 max_retries>>

\* cache.py:69-76 in process w: the wrapped operation returns and the entry
\* is built; its text takes n chunks
Fetch(w, n) ==
  /\ race.proc[w].pc = "missed"
  /\ race' = [race EXCEPT !.proc[w].pc = "fetched", !.proc[w].n = n]
  /\ UNCHANGED <<now, last_request_time, files, pc, attempt, cur, ret, net, clr,
                 cik_run, disk, ana_run, stmt_run,
                 max_retries>>

\* cache.py:77: cache_file.open('w')
Open(w) ==
  /\ race.proc[w].pc = "fetched"
  /\ race' = [race EXCEPT !.exists = truncate(race).exists,
                          !.content = truncate(race).content,
                          !.proc[w].pc = "open", !.proc[w].off = 0]
  /\ UNCHANGED <<now, last_request_time, files, pc, attempt, cur, ret, net, clr,
                 cik_run, disk, ana_run, stmt_run,
                 max_retries>>

\* cache.py:78: the next chunk reaches the file; the last one when the file
\* is closed
Write(w) ==
  /\ race.proc[w].pc = "open"
  /\ LET me   == race.proc[w]
         last == me.off + 1 = me.n
     IN  race' = [race EXCEPT !.content =
                                 write_at(@, me.off, Chunk(w, me.off + 1, me.n)),
                              !.proc[w].off = me.off + 1,
                              !.proc[w].pc = IF last THEN "closed" ELSE "open",
                              !.closed = IF last THEN Append(@, w) ELSE @]
  /\ UNCHANGED <<now, last_request_time, files, pc, attempt, cur, ret, net, clr,
                 cik_run, disk, ana_run, stmt_run,
                 max_retries>>

\* a further process reads the file (cache.py:55-58)
Read ==
  /\ \E w \in Writers : race.proc[w].pc # "start"
  /\ \E r \in read_outcomes(race.exists, race.content) :
       /\ r # race.read
       /\ race' = [race EXCEPT !.read = r]
  /\ UNCHANGED <<now, last_request_time, files, pc, attempt, cur, ret, net, clr,
                 cik_run, disk, ana_run, stmt_run,
                 max_retries>>

NextRace ==
  \/ \E w \in Writers : Lookup(w)
  \/ \E w \in Writers, n \in 1..MaxChunks : Fetch(w, n)
  \/ \E w \in Writers : Open(w)
  \/ \E w \in Writers : Write(w)
  \/ Read

SpecRace == Init /\ [][NextRace]_vars

\* a client built under any SEC_MAX_RETRIES the environment sets
\* (settings.py:14 reads an int, sec_client.py:39 copies it)
MaxRetries == 2

RetryCalls ==
  {[func |-> "get_company_submissions", self |-> 1, args |-> <<S_28917>>,
    kwargs |-> <<>>]}

InitRetries ==
  /\ now = SEC_RATE_LIMIT_DELAY
  /\ last_request_time = [c \in Clients |-> 0]
  /\ files = EmptyDir
  /\ pc = "idle"
  /\ attempt = 0
  /\ cur = NoCur
  /\ ret = NoRet
  /\ net = NoNet
  /\ clr = NoClr
  /\ cik_run = NoCikRun
  /\ disk = HealthyDisk
  /\ ana_run = NoAnaRun
  /\ stmt_run = NoStmtRun
  /\ race = NoRace
  /\ max_retries \in (0 - 1)..MaxRetries

NextRetries ==
  \/ Tick
  \/ \E call \in RetryCalls : Call(call)
  \/ Attempt
  \/ \E resp \in Responses, d \in Latencies : Respond(resp, d)

SpecRetries == InitRetries /\ [][NextRetries]_vars

\* one company under two spellings of its identifier, on one client
SpellingCalls ==
  {[func |-> "get_company_submissions", self |-> 1, args |-> <<c>>,
    kwargs |-> <<>>] : c \in {S_28917, S_0000028917}}

NextSpellings ==
  \/ Tick
  \/ \E call \in SpellingCalls : Call(call)
  \/ Attempt
  \/ \E resp \in Responses, d \in Latencies : Respond(resp, d)

SpecSpellings == Init /\ [][NextSpellings]_vars

\* get_frames on one client
NextFrames ==
  \/ Tick
  \/ \E call \in FrameCalls : Call(call)
  \/ Attempt
  \/ \E resp \in Responses, d \in Latencies : Respond(resp, d)

SpecFrames == Init /\ [][NextFrames]_vars

\* the responses _make_request returns the body of
GoodResponses == {resp \in Responses : classify(resp) = "ok"}

\* get_frames for the periods of PeriodCalls, one call after the other, the
\* server answering each request at once
NextPeriods ==
  \/ \E call \in PeriodCalls : Call(call)
  \/ Attempt
  \/ \E resp \in GoodResponses : Respond(resp, 0)

SpecPeriods == Init /\ [][NextPeriods]_vars

(***************************************************************************)
(* One call of a statement processor                                        *)
(***************************************************************************)
\* the tags of the facts passed in, each with the field a flat mapping of the
\* template is to give it ("none": a tag outside the mapping)
fact_fields(kind) ==
  CASE kind = "balance_sheet" ->
         [Assets |-> "Total Assets", Liabilities |-> "Total Liabilities",
          StockholdersEquity |-> "Total Stockholders Equity",
          AssetsCurrent |-> "Total Current Assets", FooBar |-> "none"]
    [] kind = "income_statement" ->
         [Revenues |-> "Revenue", GrossProfit |-> "Gross Profit",
          OperatingIncomeLoss |-> "Operating Income",
          NetIncomeLoss |-> "Net Income (loss) (continous operations)",
          FooBar |-> "none"]
    [] kind = "cash_flow" ->
         [NetCashProvidedByUsedInOperatingActivities |->
            "(Operating Activities) Cash Flow from Operating Activities",
          NetCashProvidedByUsedInInvestingActivities |->
            "(Investing Activities) Cash Flow from Investing Activities",
          NetCashProvidedByUsedInFinancingActivities |->
            "(Financing Activities) Cash Flow from Financing Activities",
          PaymentsToAcquirePropertyPlantAndEquipment |->
            "(Investing Activities) Purchase of Property, Plant and Equipment",
          FooBar |-> "none"]

SeriesKinds == {"usd", "empty", "nousd"}

\* facts without the 'us-gaap' namespace, and facts with any of the tags under
\* it
FactsOf(kind) ==
  {[usgaap |-> FALSE, series |-> <<>>, field |-> fact_fields(kind)]}
    \cup {[usgaap |-> TRUE, series |-> series, field |-> fact_fields(kind)] :
            series \in UNION {[tags -> SeriesKinds] :
                                tags \in SUBSET DOMAIN fact_fields(kind)}}

\* the columns of a table passed to validate_required_fields
ColumnSets(kind) ==
  SUBSET ({required_fields(kind)[i] : i \in 1..Len(required_fields(kind))}
            \cup {"period_end_date", "Total Current Assets"})

ProcessCompanyFacts(kind, facts) ==
  /\ stmt_run.stage = "off"
  /\ LET r == process_company_facts(kind, facts)
     IN  stmt_run' = [NoStmtRun EXCEPT !.stage = "done",
                                       !.method = "process_company_facts",
                                       !.kind = kind, !.facts = facts,
                                       !.raised = r.raised, !.message = r.message,
                                       !.built = r.built, !.returned = r.returned,
                                       !.result = r.result]
  /\ UNCHANGED <<now, last_request_time, files, pc, attempt, cur, ret, net, clr,
                 cik_run, disk, ana_run, race,
                 max_retries>>

ValidateRequiredFields(kind, columns) ==
  /\ stmt_run.stage = "off"
  /\ LET r == validate_required_fields(columns, required_fields(kind))
     IN  stmt_run' = [NoStmtRun EXCEPT !.stage = "done",
                                       !.method = "validate_required_fields",
                                       !.kind = kind, !.columns = columns,
                                       !.raised = IF r.raised THEN "ProcessingError"
                                                  ELSE "none",
                                       !.message = r.message,
                                       !.built = TRUE,
                                       !.returned = ~r.raised]
  /\ UNCHANGED <<now, last_request_time, files, pc, attempt, cur, ret, net, clr,
                 cik_run, disk, ana_run, race,
                 max_retries>>

\* the columns of a table passed to _calculate_derived_fields: the inputs of
\* the derived fields and the required fields
DerivedInputSets(kind) ==
  SUBSET (UNION {derived_rules(kind)[i].inputs : i \in 1..Len(derived_rules(kind))}
            \cup {required_fields(kind)[1]})

TableValues == [nonzero : BOOLEAN, raises_at : 0..3]

CalculateDerivedFields(kind, columns, values) ==
  /\ stmt_run.stage = "off"
  /\ LET r == calculate_derived_fields(kind, columns, values)
     IN  stmt_run' = [NoStmtRun EXCEPT !.stage = "done",
                                       !.method = "_calculate_derived_fields",
                                       !.kind = kind, !.columns = columns,
                                       !.values = values,
                                       !.raised = r.raised,
                                       !.built = TRUE, !.returned = TRUE,
                                       !.result = r.result]
  /\ UNCHANGED <<now, last_request_time, files, pc, attempt, cur, ret, net, clr,
                 cik_run, disk, ana_run, race,
                 max_retries>>

NextDerived ==
  \E kind \in StatementKinds : \E columns \in DerivedInputSets(kind) :
    \E values \in TableValues : CalculateDerivedFields(kind, columns, values)

SpecDerived == Init /\ [][NextDerived]_vars

NextStatements ==
  \/ \E kind \in StatementKinds : \E facts \in FactsOf(kind) :
       ProcessCompanyFacts(kind, facts)
  \/ \E kind \in StatementKinds : \E columns \in ColumnSets(kind) :
       ValidateRequiredFields(kind, columns)

SpecStatements == Init /\ [][NextStatements]_vars

(***************************************************************************)
(* One call of a method of IndustryAnalyzer                                 *)
(***************************************************************************)
GetIndustryMetrics(metrics, world) ==
  /\ ana_run.stage = "off"
  /\ LET r == get_industry_metrics(metrics, world)
     IN  ana_run' = [NoAnaRun EXCEPT !.stage = "done",
                                     !.method = "get_industry_metrics",
                                     !.quarter = PyInt(4),
                                     !.metrics = metrics, !.world = world,
                                     !.fetched = r.fetched, !.tables = r.results]
  /\ UNCHANGED <<now, last_request_time, files, pc, attempt, cur, ret, net, clr,
                 cik_run, disk, stmt_run, race,
                 max_retries>>

AnalyzeCompanyPosition(cik, quarter, metrics, world) ==
  /\ ana_run.stage = "off"
  /\ LET r == analyze_company_position(cik, PyInt(2024), quarter, metrics, world)
     IN  ana_run' = [NoAnaRun EXCEPT !.stage = "done",
                                     !.method = "analyze_company_position",
                                     !.cik = cik, !.quarter = quarter,
                                     !.metrics = metrics, !.world = world,
                                     !.fetched = r.fetched, !.rows = r.rows]
  /\ UNCHANGED <<now, last_request_time, files, pc, attempt, cur, ret, net, clr,
                 cik_run, disk, stmt_run, race,
                 max_retries>>

GetPeerRankings(metric, top_n, world) ==
  /\ ana_run.stage = "off"
  /\ LET r == get_peer_rankings(metric, top_n, world)
     IN  ana_run' = [NoAnaRun EXCEPT !.stage = "done",
                                     !.method = "get_peer_rankings",
                                     !.metric = metric, !.top_n = top_n,
                                     !.quarter = PyInt(4), !.world = world,
                                     !.raised = r.raised,
                                     !.fetched = r.fetched, !.top = r.top]
  /\ UNCHANGED <<now, last_request_time, files, pc, attempt, cur, ret, net, clr,
                 cik_run, disk, stmt_run, race,
                 max_retries>>

NextAnalyzer ==
  \/ \E in \in MetricInputs : GetIndustryMetrics(in[1], in[2])
  \/ \E in \in PositionInputs : AnalyzeCompanyPosition(in[3], in[4], in[1], in[2])
  \/ \E in \in RankInputs : GetPeerRankings(in[1], in[2], in[3])

SpecAnalyzer == Init /\ [][NextAnalyzer]_vars

(***************************************************************************)
(* _validate_cik on its own                                                 *)
(***************************************************************************)
CikInputs ==
  UNION {[1..n -> {"0", "7"}] : n \in 1..MaxCikLen}
    \cup UNION {[1..n -> {"0", "7", "x", " "}] : n \in 0..2}

InitCik ==
  /\ now = SEC_RATE_LIMIT_DELAY
  /\ last_request_time = [c \in Clients |-> 0]
  /\ files = EmptyDir
  /\ pc = "idle"
  /\ attempt = 0
  /\ cur = NoCur
  /\ ret = NoRet
  /\ net = NoNet
  /\ clr = NoClr
  /\ \E x \in CikInputs, k \in 1..MaxPad :
       cik_run = [NoCikRun EXCEPT !.stage = "in", !.x = x,
                                  !.y = [i \in 1..k |-> "0"] \o x]
  /\ disk = HealthyDisk
  /\ ana_run = NoAnaRun
  /\ stmt_run = NoStmtRun
  /\ race = NoRace
  /\ max_retries = SEC_MAX_RETRIES

\* _validate_cik(x) and _validate_cik(y), y being x behind more zeros
Validate ==
  /\ cik_run.stage = "in"
  /\ cik_run' = [cik_run EXCEPT !.stage = "out",
                                !.nx = validate_cik(cik_run.x),
                                !.ny = validate_cik(cik_run.y)]
  /\ UNCHANGED <<now, last_request_time, files, pc, attempt, cur, ret, net, clr,
                 disk, ana_run, stmt_run, race,
                 max_retries>>

\* _validate_cik applied to its own result
Revalidate ==
  /\ cik_run.stage = "out"
  /\ ~cik_run.nx.raised
  /\ cik_run' = [cik_run EXCEPT !.stage = "again",
                                !.nnx = validate_cik(cik_run.nx.value)]
  /\ UNCHANGED <<now, last_request_time, files, pc, attempt, cur, ret, net, clr,
                 disk, ana_run, stmt_run, race,
                 max_retries>>

NextCik == Validate \/ Revalidate

SpecCik == InitCik /\ [][NextCik]_vars

(***************************************************************************)
(* Properties                                                               *)
(***************************************************************************)
\* the call found an entry of its key that was not older than the TTL
FreshAtStart(c) == c.had_file /\ ~WasExpired(c)

\* what a payload of the call is about: its URL, or the mock's parameter
OwnSource(call) ==
  IF call.func \in Endpoints THEN endpoint_url(call).url ELSE call.args[1]

\* C1: a call that finds an entry of its key within the TTL (or without a
\* TTL) returns the stored payload, does not enter the wrapped function and
\* issues no request.
C1_CacheHit ==
  LET f == cur.call.func
  IN  ( /\ cur.done
        /\ is_cached(f)
        /\ cur.had_file
        /\ has_ttl(f) => cur.start - cur.pre.cached_at <= expires_after(f) )
      => /\ ret.kind = "return"
         /\ ret.value = cur.pre.data
         /\ cur.invoked = 0
         /\ cur.nreq = 0
         /\ cur.ended = cur.start

C1_Witness ==
  /\ cur.done
  /\ cur.call.func = "get_company_submissions"
  /\ cur.had_file
  /\ cur.start - cur.pre.cached_at = TTL_6H
  /\ ret.kind = "return"
  /\ cur.invoked = 0

\* C2: a call that finds the entry of its key older than the TTL enters the
\* wrapped function exactly once and does not return the stored payload; when
\* the function returns, the file holds the new payload under a new cached_at;
\* and the next call with the same arguments within the TTL returns that
\* payload without entering the function.
C2_Expiration ==
  LET f    == cur.call.func
      file == cache_file(cache_key(cur.call))
  IN  /\ (cur.done /\ is_cached(f) /\ WasExpired(cur))
           => /\ cur.invoked = 1
              /\ ret.kind = "return"
                   => /\ ret.value = cur.fresh
                      /\ ret.value # cur.pre.data
                      /\ file \in DOMAIN files
                      /\ files[file] = [cached_at |-> cur.ended,
                                        data |-> ret.value,
                                        cache_key |-> cache_key(cur.call)]
                      /\ cur.ended > cur.pre.cached_at
      /\ ( /\ cur.done
           /\ cur.after_refresh.valid
           /\ cur.start - cur.after_refresh.at <= expires_after(f) )
           => /\ ret.kind = "return"
              /\ ret.value = cur.after_refresh.value
              /\ cur.invoked = 0
              /\ cur.nreq = 0

C2_Witness ==
  /\ cur.done
  /\ cur.after_refresh.valid
  /\ cur.start > cur.after_refresh.at
  /\ ret.kind = "return"
  /\ ret.value = cur.after_refresh.value
  /\ cur.invoked = 0

\* C3: calls of one cached function with different arguments use different
\* cache files; a call whose own key has no unexpired entry enters the
\* wrapped function although an entry of other arguments exists, and what it
\* returns is its own payload, never that of the other arguments.
C3_MissOnDifferentArgs ==
  (cur.done /\ is_cached(cur.call.func))
    => /\ \A other \in MockCalls \cup Calls :
            (other.func = cur.call.func /\ other.self = cur.call.self
               /\ other.args # cur.call.args)
              => LET ofile == cache_file(cache_key(other))
                 IN  /\ ofile # cache_file(cache_key(cur.call))
                     /\ (ofile \in DOMAIN files /\ ret.kind = "return")
                          => ret.value # files[ofile].data
       /\ ~FreshAtStart(cur)
            => /\ cur.invoked = 1
               /\ ret.kind = "return" => ret.value = cur.fresh
       /\ ret.kind = "return" => ret.value.src = OwnSource(cur.call)

C3_Witness ==
  /\ cur.done
  /\ cur.call.func = "mock_api_call"
  /\ cur.call.args = <<S_another>>
  /\ ~cur.had_file
  /\ cur.invoked = 1
  /\ lookup(files,
            [func |-> "mock_api_call", self |-> 0, args |-> <<S_test1>>,
             kwargs |-> <<>>], cur.start).hit

\* C4: clear_cache(pattern) with a pattern deletes exactly the files whose
\* stored cache_key contains the pattern, leaves the others as they were and
\* returns the number of files it deleted.
C4_ClearPattern ==
  (clr.valid /\ clr.pattern.given)
    => /\ DOMAIN files =
            {f \in DOMAIN clr.before :
               ~contains(clr.before[f].cache_key, clr.pattern.text)}
       /\ \A f \in DOMAIN files : files[f] = clr.before[f]
       /\ clr.count = Cardinality(DOMAIN clr.before \ DOMAIN files)

C4_Witness ==
  /\ clr.valid
  /\ clr.pattern.given
  /\ clr.pattern.text = <<"t", "e", "s", "t">>
  /\ clr.count = 1
  /\ Cardinality(DOMAIN files) = 1

\* C5: clear_cache() without pattern leaves no file and returns the number of
\* files there were; the cached call that follows it is a miss.
C5_ClearAll ==
  /\ (clr.valid /\ ~clr.pattern.given)
       => /\ DOMAIN files = {}
          /\ clr.count = Cardinality(DOMAIN clr.before)
  /\ (cur.after_clear_all /\ is_cached(cur.call.func))
       => /\ ~cur.had_file
          /\ cur.invoked = 1

C5_Witness ==
  /\ clr.valid
  /\ ~clr.pattern.given
  /\ clr.count = 2
  /\ DOMAIN files = {}

\* C6: two consecutive requests of one client are at least
\* SEC_RATE_LIMIT_DELAY apart, retries included, and the n requests of a call
\* span at least (n - 1) * SEC_RATE_LIMIT_DELAY.
C6_RateLimit ==
  /\ net.gap >= 0 => net.gap >= SEC_RATE_LIMIT_DELAY
  /\ cur.nreq >= 1
       => net.issued_at[cur.call.self] - cur.first_issue
            >= (cur.nreq - 1) * SEC_RATE_LIMIT_DELAY

\* the limiter made the first request of a call wait
C6_Witness ==
  /\ pc = "inflight"
  /\ cur.nreq = 1
  /\ net.gap = SEC_RATE_LIMIT_DELAY
  /\ now > cur.start

\* C7: a 429 on attempt k that is not the last is followed by a sleep of
\* SEC_RETRY_DELAY * k and another request; a call ends on a 429 only at
\* attempt SEC_MAX_RETRIES, with SECRateLimitError.
C7_RetryOn429 ==
  /\ (pc \in {"attempt", "inflight"} /\ attempt > 0 /\ is_429(net.last_resp))
       => /\ net.last_sleep = SEC_RETRY_DELAY * attempt
          /\ now - net.last_resp_at >= SEC_RETRY_DELAY * attempt
  /\ (cur.done /\ cur.nreq > 0 /\ is_429(net.last_resp))
       => /\ cur.nreq = SEC_MAX_RETRIES
          /\ ret.kind = "SECRateLimitError"
  /\ ret.kind = "SECRateLimitError"
       => /\ is_429(net.last_resp)
          /\ cur.nreq = SEC_MAX_RETRIES

C7_Witness ==
  /\ cur.done
  /\ net.all_429
  /\ cur.nreq = SEC_MAX_RETRIES
  /\ ret.kind = "SECRateLimitError"

\* C8: a timeout, a connection error or a non-2xx response other than 429 is
\* followed by a sleep of SEC_RETRY_DELAY and another request; a call ends on
\* such a response only at attempt SEC_MAX_RETRIES, with SECDataError; and a
\* 2xx response with a JSON body ends the call at once.
C8_RetryOnFailure ==
  /\ (pc \in {"attempt", "inflight"} /\ attempt > 0 /\ is_bad(net.last_resp))
       => net.last_sleep = SEC_RETRY_DELAY
  /\ (cur.done /\ cur.nreq > 0 /\ is_bad(net.last_resp))
       => /\ cur.nreq = SEC_MAX_RETRIES
          /\ ret.kind = "SECDataError"
  /\ (cur.nreq > 0 /\ is_2xx(net.last_resp) /\ net.last_resp.json)
       => /\ cur.done
          /\ ret.kind = "return"

\* C9: on every numeric identifier _validate_cik is idempotent, returns an
\* already normalized 10-digit identifier unchanged, and maps two identifiers
\* that differ only in leading zeros to the same 10-digit string.
C9_Idempotent ==
  (cik_run.stage \in {"out", "again"} /\ isdigit(cik_run.x))
    => /\ ~cik_run.nx.raised
       /\ Len(cik_run.nx.value) = CIK_WIDTH
       /\ cik_run.ny = cik_run.nx
       /\ Len(cik_run.x) = CIK_WIDTH => cik_run.nx.value = cik_run.x
       /\ cik_run.stage = "again" => cik_run.nnx = cik_run.nx

\* the identifier holds a character that is neither a digit nor white space
NonNumeric(s) == \E i \in 1..Len(s) : s[i] \notin Digits \cup Whitespace

\* C10: an endpoint call with a non-numeric identifier ends with ValueError
\* in the step that enters it: no request, no wait, no attempt.
C10_InvalidCik ==
  (cur.call.func \in Endpoints /\ NonNumeric(cur.call.args[1]))
    => /\ pc = "idle"
       /\ cur.done
       /\ ret.kind = "ValueError"
       /\ cur.nreq = 0
       /\ cur.ended = cur.start
       /\ net.gap = -1
       /\ net.last_resp = NoResp

C10_Witness ==
  /\ cur.done
  /\ cur.call.func = "get_company_concept"
  /\ NonNumeric(cur.call.args[1])
  /\ ret.kind = "ValueError"
  /\ clr = NoClr
  /\ DOMAIN files # {}

\* C11: a call of get_frames with a quarter that is given and lies outside
\* 1..4 ends with ValueError in the step that enters it, without a request.
C11_QuarterValidation ==
  LET quarter == kwarg(cur.call, S_quarter, PyNone)
  IN  ( /\ cur.call.func = "get_frames"
        /\ quarter.t = "int"
        /\ ~(1 <= quarter.n /\ quarter.n <= 4) )
      => /\ pc = "idle"
         /\ cur.done
         /\ ret.kind = "ValueError"
         /\ cur.nreq = 0

\* C12: a call of get_company_facts that directly follows a call with the
\* same identifier on the same client that returned a payload, within the
\* 7-day TTL of that return, issues no request.
C12_FactsCached ==
  ( /\ cur.call.func = "get_company_facts"
    /\ cur.after_ok.valid
    /\ cur.start - cur.after_ok.at <= TTL_7D )
  => cur.nreq = 0

\* C13: a finished call of a cached function raises nothing but what the
\* wrapped operation raised, whatever step on the cache directory failed; and
\* when the wrapped operation was entered and returned a value, the call
\* returns that value.
C13_CacheFailureSwallowed ==
  (cur.done /\ is_cached(cur.call.func))
    => /\ ret.kind \in {"return", "ValueError", "SECRateLimitError", "SECDataError"}
       /\ (cur.invoked = 1 /\ cur.fresh # NoData)
            => ret = [kind |-> "return", value |-> cur.fresh]

\* the metrics a call of get_industry_metrics or analyze_company_position
\* goes through
Requested(run) == metrics_or_default(run.metrics)

Supported(metric) == metric \in DOMAIN key_metrics

\* the frame get_frames returns for a supported metric, when it returns one
HasFrame(run, metric) == run.world[key_metrics[metric].tag].kind = "data"

FrameFor(run, metric) == run.world[key_metrics[metric].tag].data

InFrame(frame, cik) == \E k \in 1..Len(frame) : frame[k].cik = cik

ValueIn(frame, cik) == frame[CHOOSE k \in 1..Len(frame) : frame[k].cik = cik].val

AtMost(frame, v) == Cardinality({k \in 1..Len(frame) : frame[k].val <= v})

C15_PeerRanking ==
  (ana_run.method = "get_peer_rankings" /\ Supported(ana_run.metric))
    => LET top == ana_run.top
       IN  /\ ana_run.raised = "none"
           /\ ~HasFrame(ana_run, ana_run.metric) => top = <<>>
           /\ HasFrame(ana_run, ana_run.metric)
                => LET frame == FrameFor(ana_run, ana_run.metric)
                       n     == Len(frame)
                   IN  /\ Len(top) = (IF ana_run.top_n < n THEN ana_run.top_n ELSE n)
                       /\ \A i \in 1..Len(top) :
                            \E k \in 1..n : /\ frame[k].cik = top[i].cik
                                            /\ frame[k].entityName = top[i].entityName
                       /\ \A i, j \in 1..Len(top) :
                            i < j => /\ top[i].cik # top[j].cik
                                     /\ ValueIn(frame, top[i].cik)
                                          >= ValueIn(frame, top[j].cik)
                       /\ \A k \in 1..n :
                            (\A i \in 1..Len(top) : top[i].cik # frame[k].cik)
                              => \A i \in 1..Len(top) :
                                   frame[k].val <= ValueIn(frame, top[i].cik)
                       /\ (frame = TestFrame /\ ana_run.top_n = 3)
                            => [i \in 1..Len(top) |-> top[i].cik]
                                 = <<CikOf(5), CikOf(4), CikOf(3)>>

\* test_get_peer_rankings: Revenue, five companies, top_n = 3
C15_Witness ==
  /\ ana_run.method = "get_peer_rankings"
  /\ ana_run.metric = "Revenue"
  /\ ana_run.top_n = 3
  /\ FrameFor(ana_run, "Revenue") = TestFrame
  /\ Len(ana_run.top) = 3
  /\ ana_run.top[1].val = <<"$", "5", ",", "0", "0", "0", ",", "0", "0", "0">>
  /\ ana_run.top[3].cik = CikOf(3)

\* a metric outside the registry is named in the call
NamesUnsupported(run) ==
  \/ run.method = "get_peer_rankings" /\ ~Supported(run.metric)
  \/ /\ run.method \in {"get_industry_metrics", "analyze_company_position"}
     /\ \E i \in 1..Len(run.metrics.list) : ~Supported(run.metrics.list[i])

\* C16: a call that names a metric outside the registry raises ValueError,
\* and get_frames is asked only for tags of registered metrics that were
\* requested.
C16_UnsupportedMetric ==
  NamesUnsupported(ana_run)
    => /\ ana_run.raised = "ValueError"
       /\ \A i \in 1..Len(ana_run.fetched) :
            \E m \in DOMAIN key_metrics :
              /\ key_metrics[m].tag = ana_run.fetched[i]
              /\ \/ ana_run.metric = m
                 \/ \E k \in 1..Len(ana_run.metrics.list) : ana_run.metrics.list[k] = m

TableKeys(run) == {run.tables[i].key : i \in 1..Len(run.tables)}

\* C20: get_industry_metrics raises nothing; a requested metric whose fetch
\* raised is not in the result, and every requested supported metric whose
\* fetch returned data is in the result with the rows fetched.
C20_PartialMetrics ==
  ana_run.method = "get_industry_metrics"
    => /\ ana_run.raised = "none"
       /\ \A i \in 1..Len(Requested(ana_run)) :
            LET metric == Requested(ana_run)[i]
            IN  Supported(metric)
                => /\ ana_run.world[key_metrics[metric].tag].kind = "raise"
                        => metric \notin TableKeys(ana_run)
                   /\ HasFrame(ana_run, metric)
                        => \E j \in 1..Len(ana_run.tables) :
                             /\ ana_run.tables[j].key = metric
                             /\ ana_run.tables[j].value = FrameFor(ana_run, metric)

\* the first of two fetches raised and the second returned rows
C20_Witness ==
  /\ ana_run.method = "get_industry_metrics"
  /\ ana_run.metrics = Given(<<"Assets", "Revenue">>)
  /\ ana_run.world["Assets"].kind = "raise"
  /\ ana_run.fetched = <<"Assets", "Revenues">>
  /\ TableKeys(ana_run) = {"Revenue"}
  /\ Len(ana_run.tables[1].value) = 3

\* what the processors' messages name: the statement on which no data was
\* found
NoDataFound(run) ==
  \/ run.kind = "balance_sheet" /\ run.message = <<"No ", "balance sheet", " data found">>
  \/ run.kind = "income_statement"
       /\ run.message = <<"No ", "income statement", " data found">>
  \/ run.kind = "cash_flow" /\ run.message = <<"No ", "cash flow", " data found">>

\* C17: process_company_facts on facts that hold the us-gaap namespace with
\* no tag of the template's mapping under it raises ProcessingError with the
\* message that no data was found for the statement, before a table is built.
C17_NoDataFound ==
  ( /\ stmt_run.method = "process_company_facts"
    /\ stmt_run.facts.usgaap
    /\ \A t \in DOMAIN stmt_run.facts.series : stmt_run.facts.field[t] = "none" )
  => /\ stmt_run.raised = "ProcessingError"
     /\ NoDataFound(stmt_run)
     /\ ~stmt_run.built
     /\ ~stmt_run.returned

Required(kind) == {required_fields(kind)[i] : i \in 1..Len(required_fields(kind))}

\* C18: process_company_facts on facts that carry a USD series for a tag of
\* every required field returns a statement with the required fields and
\* raises nothing, whatever other tags are there.
C18_RequiredPresent ==
  ( /\ stmt_run.method = "process_company_facts"
    /\ stmt_run.facts.usgaap
    /\ \A field \in Required(stmt_run.kind) :
         \E t \in DOMAIN stmt_run.facts.series :
           stmt_run.facts.field[t] = field /\ stmt_run.facts.series[t] = "usd" )
  => /\ stmt_run.raised = "none"
     /\ stmt_run.returned
     /\ Required(stmt_run.kind) \subseteq stmt_run.result

\* the fields a "Missing required fields" message names, and how often
Named(message, field) ==
  Cardinality({i \in 2..Len(message) : message[i] = field})

\* C19: validate_required_fields raises ProcessingError exactly when a
\* required field is no column of the table, the message then names every
\* missing required field once and nothing else; when all are columns it
\* returns True; and process_company_facts returns a statement only with all
\* required fields, a call that raised returning nothing.
C19_RequiredFieldsStrict ==
  LET missing == Required(stmt_run.kind) \ stmt_run.columns
  IN  /\ stmt_run.method = "validate_required_fields"
           => /\ (missing # {}) <=> (stmt_run.raised = "ProcessingError")
              /\ (missing = {}) <=> (stmt_run.raised = "none" /\ stmt_run.returned)
              /\ missing # {}
                   => /\ stmt_run.message[1] = "Missing required fields: "
                      /\ \A field \in missing : Named(stmt_run.message, field) = 1
                      /\ \A i \in 2..Len(stmt_run.message) :
                           stmt_run.message[i] \in missing \cup {", "}
                      /\ Len(stmt_run.message) = 2 * Cardinality(missing)
                      /\ ~stmt_run.returned
      /\ stmt_run.method = "process_company_facts"
           => /\ stmt_run.returned => Required(stmt_run.kind) \subseteq stmt_run.result
              /\ stmt_run.raised # "none"
                   => (~stmt_run.returned /\ stmt_run.result = NoTable)

\* two of the four required fields of the income statement are missing
C19_Witness ==
  /\ stmt_run.method = "validate_required_fields"
  /\ stmt_run.kind = "income_statement"
  /\ stmt_run.columns = {"Revenue", "Operating Income", "period_end_date"}
  /\ stmt_run.raised = "ProcessingError"
  /\ stmt_run.message
       = <<"Missing required fields: ", "Gross Profit", ", ",
           "Net Income (loss) (continous operations)">>

\* the period the claim names for a year, a quarter of 1..4 or none, and the
\* instantaneous flag
NamedPeriod(year, quarter, instantaneous) ==
  IF quarter = PyNone THEN <<"C", "Y">> \o str_nat(year.n)
  ELSE <<"C", "Y">> \o str_nat(year.n) \o <<"Q">> \o <<DigitSeq[quarter.n + 1]>>
         \o (IF instantaneous = PyBool(TRUE) THEN <<"I">> ELSE <<>>)

\* C21: a call of get_frames without quarter, or with a quarter in 1..4, that
\* misses the cache requests <api_url>/frames/<taxonomy>/<tag>/<unit>/<period>.json
\* with period CY<year>, CY<year>Q<quarter>, or CY<year>Q<quarter>I when
\* instantaneous: the period is determined by year, quarter and instantaneous.
C21_PeriodEncoding ==
  LET call    == cur.call
      quarter == kwarg(call, S_quarter, PyNone)
  IN  ( /\ call.func = "get_frames"
        /\ cur.invoked = 1
        /\ quarter = PyNone \/ (quarter.t = "int" /\ quarter.n \in 1..4) )
      => /\ ret.kind # "ValueError"
         /\ cur.url = api_url \o <<"/", "f", "r", "a", "m", "e", "s", "/">>
                        \o kwarg(call, S_taxonomy, PyNone).s \o <<"/">>
                        \o kwarg(call, S_tag, PyNone).s \o <<"/">>
                        \o kwarg(call, S_unit, PyNone).s \o <<"/">>
                        \o NamedPeriod(kwarg(call, S_year, PyNone), quarter,
                                       kwarg(call, S_instantaneous, PyBool(FALSE)))
                        \o <<".", "j", "s", "o", "n">>
         /\ cur.nreq >= 1 \/ pc = "attempt"

\* an instantaneous first-quarter request went out
C21_Witness ==
  /\ cur.call = FrameCall(S_Revenues, 2024, PyInt(1),
                          <<<<S_instantaneous, PyBool(TRUE)>>>>)
  /\ pc = "inflight"
  /\ cur.url = api_url \o <<"/", "f", "r", "a", "m", "e", "s", "/", "u", "s", "-",
                            "g", "a", "a", "p", "/", "R", "e", "v", "e", "n", "u",
                            "e", "s", "/", "U", "S", "D", "/", "C", "Y", "2", "0",
                            "2", "4", "Q", "1", "I", ".", "j", "s", "o", "n">>

\* the cache holds a readable entry of the call's key that is within the TTL
\* at time t
HasFreshEntry(fs, call, t) ==
  LET file == cache_file(cache_key(call))
  IN  /\ file \in DOMAIN fs
      /\ fs[file] # Corrupt
      /\ has_ttl(call.func) => t - fs[file].cached_at <= expires_after(call.func)

\* C22: a call of a cached endpoint method that finds a fresh entry of its key
\* is over in the step that enters it: the clock and every client's
\* last_request_time are as before, no request is issued and the retry loop
\* is not entered.
C22_HitLeavesThrottle ==
  [][\A call \in EndpointCalls :
       ( /\ Call(call)
         /\ is_cached(call.func)
         /\ HasFreshEntry(files, call, now) )
       => /\ last_request_time' = last_request_time
          /\ now' = now
          /\ net'.issued_at = net.issued_at
          /\ cur'.done /\ cur'.nreq = 0 /\ cur'.invoked = 0
          /\ pc' = "idle" /\ attempt' = attempt
          /\ ret'.kind = "return"]_vars

\* a hit in the tick of the client's last request, where a request would
\* have had to wait
C22_Witness ==
  /\ cur.done
  /\ cur.call.func = "get_company_submissions"
  /\ cur.had_file
  /\ cur.invoked = 0
  /\ cur.nreq = 0
  /\ ret.kind = "return"
  /\ now - last_request_time[cur.call.self] < SEC_RATE_LIMIT_DELAY

\* a step in which a call of FaultCalls ends
Ends ==
  /\ cur'.done
  /\ \/ \E call \in FaultCalls : Call(call)
     \/ \E resp \in Responses, d \in Latencies : Respond(resp, d)

\* the call that ends found a file of its key that could not be read or parsed
FoundCorrupt == is_cached(cur'.call.func) /\ cur'.had_file /\ cur'.pre = Corrupt

\* the entry the wrapper writes for the call when it returns
ValidEntry(c) ==
  [cached_at |-> c.ended, data |-> c.fresh, cache_key |-> cache_key(c.call)]

WrappedRaises == {"ValueError", "SECRateLimitError", "SECDataError"}

\* C23 as stated: a call that finds the file of its key unreadable or
\* unparsable enters the wrapped operation once and raises nothing but what
\* that raises; when the operation returns, the call returns its value and
\* the file holds a valid entry of it.
C23_CorruptIsMiss ==
  [][(Ends /\ FoundCorrupt)
       => LET file == cache_file(cache_key(cur'.call))
          IN  /\ cur'.invoked = 1
              /\ ret'.kind \in {"return"} \cup WrappedRaises
              /\ cur'.fresh # NoData
                   => /\ ret' = [kind |-> "return", value |-> cur'.fresh]
                      /\ file \in DOMAIN files'
                      /\ files'[file] = ValidEntry(cur')]_vars

\* C23 amended: as above, the file holding a valid entry of the returned
\* value when the write succeeds; when open('w') fails the file is left as it
\* was, when json.dump fails it is left unparsable, and in both cases the call
\* still returns the value and raises nothing.
C23_CorruptIsMissWriteSwallowed ==
  [][(Ends /\ FoundCorrupt)
       => LET file == cache_file(cache_key(cur'.call))
          IN  /\ cur'.invoked = 1
              /\ ret'.kind \in {"return"} \cup WrappedRaises
              /\ cur'.fresh # NoData
                   => /\ ret' = [kind |-> "return", value |-> cur'.fresh]
                      /\ file \in DOMAIN files'
                      /\ disk.write = "ok" => files'[file] = ValidEntry(cur')
                      /\ disk.write # "ok" => files'[file] = Corrupt
              /\ cur'.fresh = NoData => files' = files
              /\ \A f \in DOMAIN files' \ {file} : f \in DOMAIN files /\ files'[f] = files[f]]_vars

\* an endpoint call found its file corrupt, fetched, and the file holds the
\* fetched payload
C23_Witness ==
  /\ cur.done
  /\ cur.call.func = "get_company_submissions"
  /\ cur.had_file
  /\ cur.pre = Corrupt
  /\ cur.invoked = 1
  /\ cur.nreq >= 1
  /\ ret = [kind |-> "return", value |-> cur.fresh]
  /\ files[cache_file(cache_key(cur.call))] = ValidEntry(cur)

Unreadable(fs) == {f \in DOMAIN fs : fs[f] = Corrupt}

\* the readable files whose stored key contains the text
Matching(fs, text) ==
  {f \in DOMAIN fs \ Unreadable(fs) : contains(fs[f].cache_key, text)}

\* what clear_cache under a pattern is to do with a directory that holds
\* unreadable files
SkipsUnreadable(pattern) ==
  /\ DOMAIN files' = DOMAIN files \ Matching(files, pattern.text)
  /\ \A f \in DOMAIN files' : files'[f] = files[f]
  /\ clr'.count = Cardinality(Matching(files, pattern.text))

\* C24 as stated: clear_cache(pattern), whatever pattern is passed, leaves
\* every unreadable file in place and as it was, deletes exactly the readable
\* files whose key contains the pattern and returns their number.
C24_ClearSkipsCorrupt ==
  [][\A pattern \in Patterns :
       (ClearCache(pattern) /\ pattern.given) => SkipsUnreadable(pattern)]_vars

\* C24 amended: the same for a pattern that is not the empty string; under
\* the empty string, as under no pattern, every file is deleted and counted
\* unread.
C24_ClearSkipsCorruptNonEmpty ==
  [][\A pattern \in Patterns :
       /\ (ClearCache(pattern) /\ pattern.given /\ pattern.text # <<>>)
            => SkipsUnreadable(pattern)
       /\ (ClearCache(pattern) /\ pattern.given /\ pattern.text = <<>>)
            => /\ DOMAIN files' = {}
               /\ clr'.count = Cardinality(DOMAIN files)]_vars

\* clear_cache('test') on an unreadable file and a matching one: one deleted,
\* the unreadable one still there
C24_Witness ==
  /\ clr.valid
  /\ clr.pattern = [given |-> TRUE, text |-> <<"t", "e", "s", "t">>]
  /\ clr.count = 1
  /\ Cardinality(DOMAIN clr.before) = 2
  /\ \E f \in DOMAIN clr.before : clr.before[f] = Corrupt /\ f \in DOMAIN files
  /\ Cardinality(DOMAIN files) = 1

\* C25: a finished call of a cached endpoint method on one client, entered
\* while the entry another client wrote for the same method and arguments was
\* within the TTL, used that client's cache file: it returned the stored
\* payload without entering the method or issuing a request.
C25_SharedAcrossInstances ==
  \A other \in PeerCalls :
    LET f     == cur.call.func
        ofile == cache_file(cache_key(other))
    IN  ( /\ cur.done
          /\ is_cached(f)
          /\ other.self # cur.call.self
          /\ other.func = f
          /\ other.args = cur.call.args
          /\ other.kwargs = cur.call.kwargs
          /\ ofile \in DOMAIN files
          /\ files[ofile].cached_at <= cur.start
          /\ cur.start - files[ofile].cached_at <= expires_after(f) )
        => /\ ofile = cache_file(cache_key(cur.call))
           /\ cur.invoked = 0
           /\ cur.nreq = 0
           /\ ret = [kind |-> "return", value |-> files[ofile].data]

\* C26: whatever way the steps of two processes that missed the same key and
\* write it fall, no read of the file gets anything but no file or the
\* complete entry of one of them, and once both have closed the file it holds
\* the complete entry of the one that closed it last.
C26_NoCorruptFile ==
  /\ race.read.kind \in {"none", "absent", "entry"}
  /\ Len(race.closed) = Cardinality(Writers)
       => LET last == race.closed[Len(race.closed)]
          IN  race.exists /\ race.content = Entry(last, race.proc[last].n)

\* the derived columns the claim names, each with the columns it is computed
\* from
DerivedFrom(name) ==
  CASE name = "Working Capital" -> {"Total Current Assets", "Total Current Liabilities"}
    [] name = "Total Assets (Calculated)" ->
         {"Total Current Assets", "Total Non Current Assets"}
    [] name = "Debt to Equity Ratio" ->
         {"Total Liabilities", "Total Stockholders Equity"}
    [] name = "Free Cash Flow" ->
         {"(Operating Activities) Cash Flow from Operating Activities",
          "(Investing Activities) Purchase of Property, Plant and Equipment"}
    [] name = "Total Cash Flow" ->
         {"(Operating Activities) Cash Flow from Operating Activities",
          "(Investing Activities) Cash Flow from Investing Activities",
          "(Financing Activities) Cash Flow from Financing Activities"}
    [] name = "Operating Cash Flow Ratio" ->
         {"(Operating Activities) Cash Flow from Operating Activities",
          "Total Current Liabilities"}
    [] name = "Gross Profit Margin" -> {"Gross Profit", "Revenue"}
    [] name = "Operating Margin" -> {"Operating Income", "Revenue"}
    [] name = "Net Profit Margin" ->
         {"Net Income (loss) (continous operations)", "Revenue"}

DerivedNames ==
  {"Working Capital", "Total Assets (Calculated)", "Debt to Equity Ratio",
   "Free Cash Flow", "Total Cash Flow", "Operating Cash Flow Ratio",
   "Gross Profit Margin", "Operating Margin", "Net Profit Margin"}

\* C27: _calculate_derived_fields returns a table that holds a derived column
\* only when all the columns it is computed from were columns of the input;
\* it raises nothing, keeps every input column and adds nothing but derived
\* columns.
C27_DerivedNeedsAllInputs ==
  stmt_run.method = "_calculate_derived_fields"
    => /\ \A name \in DerivedNames :
            name \in stmt_run.result => DerivedFrom(name) \subseteq stmt_run.columns
       /\ stmt_run.raised = "none"
       /\ stmt_run.returned
       /\ stmt_run.columns \subseteq stmt_run.result
       /\ stmt_run.result \ stmt_run.columns \subseteq DerivedNames

\* a balance sheet with one of the two inputs of Working Capital and both of
\* Debt to Equity Ratio
C27_Witness ==
  /\ stmt_run.method = "_calculate_derived_fields"
  /\ stmt_run.kind = "balance_sheet"
  /\ stmt_run.columns
       = {"Total Current Assets", "Total Liabilities", "Total Stockholders Equity"}
  /\ stmt_run.result = stmt_run.columns \cup {"Debt to Equity Ratio"}

\* C28: a call of a cached function that ends with an exception of the
\* wrapped operation leaves every cache file as it was, the entry it found
\* under its own key, expired or not, included; and the next call with the
\* same arguments enters the wrapped operation again.
C28_FailedCallNotCached ==
  [][/\ (is_cached(cur'.call.func) /\ ret'.kind # "return") => files' = files
     /\ (cur'.done /\ is_cached(cur'.call.func) /\ ret'.kind \in WrappedRaises)
          => LET file == cache_file(cache_key(cur'.call))
             IN  /\ cur'.invoked = 1
                 /\ cur'.fresh = NoData
                 /\ (file \in DOMAIN files') = cur'.had_file
                 /\ cur'.had_file => files'[file] = cur'.pre
     /\ \A call \in Calls :
          ( /\ Call(call)
            /\ is_cached(call.func)
            /\ cur.done /\ cur.call = call
            /\ ret.kind \in WrappedRaises )
          => cur'.invoked = 1]_vars

\* a call found its entry expired, failed on every attempt, and the expired
\* entry is still in place
C28_Witness ==
  /\ cur.done
  /\ cur.call.func = "get_company_submissions"
  /\ WasExpired(cur)
  /\ ret.kind = "SECDataError"
  /\ cur.nreq = SEC_MAX_RETRIES
  /\ files[cache_file(cache_key(cur.call))] = cur.pre

\* C29: whatever max_retries is configured, a call that reached _make_request
\* ends by returning the body of a response _make_request accepts, with
\* SECRateLimitError or with SECDataError; and every entry in the cache holds
\* the body of such a response.
C29_MakeRequestOutcomes ==
  /\ (cur.done /\ cur.call.func \in Endpoints /\ cur.invoked = 1
        /\ ret.kind # "ValueError")
       => \/ /\ ret.kind = "return"
             /\ cur.nreq >= 1
             /\ classify(net.last_resp) = "ok"
             /\ ret.value = [src |-> cur.url, stamp |-> net.last_resp_at]
          \/ ret.kind = "SECRateLimitError"
          \/ ret.kind = "SECDataError"
  /\ \A f \in DOMAIN files :
       /\ files[f].data # NoneValue
       /\ files[f].data.stamp = files[f].cached_at

\* the finished call was entered while the cache held an entry within the TTL
\* that the same client's call with another spelling of the same identifier
\* had written
OtherSpellingFresh(other) ==
  LET f     == cur.call.func
      ofile == cache_file(cache_key(other))
  IN  /\ cur.done
      /\ is_cached(f)
      /\ other.func = f
      /\ other.self = cur.call.self
      /\ other.args # cur.call.args
      /\ ~validate_cik(other.args[1]).raised
      /\ validate_cik(other.args[1]) = validate_cik(cur.call.args[1])
      /\ ofile \in DOMAIN files
      /\ files[ofile].cached_at <= cur.start
      /\ cur.start - files[ofile].cached_at <= expires_after(f)

\* C30 as stated: such a call is a hit on that entry and issues no request.
C30_SharedAcrossSpellings ==
  \A other \in SpellingCalls :
    OtherSpellingFresh(other)
      => /\ cur.invoked = 0
         /\ cur.nreq = 0
         /\ ret = [kind |-> "return",
                   value |-> files[cache_file(cache_key(other))].data]

\* C30 amended: the two spellings have cache entries of their own.  Such a
\* call is served from the entry of its own spelling when that is within the
\* TTL; otherwise it enters the method and requests the URL the other
\* spelling requested, and when it returns its payload is stored under its
\* own key, the other entry staying as it was.
C30_SpellingsKeptApart ==
  \A other \in SpellingCalls :
    OtherSpellingFresh(other)
      => LET ofile == cache_file(cache_key(other))
             file  == cache_file(cache_key(cur.call))
         IN  /\ ofile # file
             /\ files[ofile].cache_key = cache_key(other)
             /\ FreshAtStart(cur)
                  => /\ cur.invoked = 0
                     /\ ret = [kind |-> "return", value |-> cur.pre.data]
             /\ ~FreshAtStart(cur)
                  => /\ cur.invoked = 1
                     /\ cur.url = endpoint_url(other).url
                     /\ ret.kind = "return"
                          => /\ cur.nreq >= 1
                             /\ files[file] = ValidEntry(cur)

\* 0000028917 is fetched and stored while the entry of 28917 is within the TTL
C30_Witness ==
  /\ cur.done
  /\ cur.call.args = <<S_0000028917>>
  /\ ~cur.had_file
  /\ cur.invoked = 1
  /\ cur.nreq >= 1
  /\ ret.kind = "return"
  /\ OtherSpellingFresh([func |-> "get_company_submissions", self |-> 1,
                         args |-> <<S_28917>>, kwargs |-> <<>>])
  /\ Cardinality(DOMAIN files) = 2

====
